---------------------------- MODULE Spec2Model ----------------------------
(***************************************************************************)
(* A model of the forecasting core of the JSE stock dashboard:             *)
(*   utils/forecasting.py  create_forecast, calculate_confidence_intervals,*)
(*                         calculate_forecast_returns,                     *)
(*                         generate_stock_recommendation                   *)
(*   utils/analysis.py     calculate_portfolio_value                       *)
(*   utils/ml_models.py    prepare_features, train_predict_rf,             *)
(*                         generate_ml_forecast                            *)
(* of the callers that unpack create_forecast's result, and of             *)
(*   utils/stock_data.py   get_stock_data, get_financial_metrics,          *)
(*                         calculate_portfolio_metrics                     *)
(*   utils/mood_indicator.py  calculate_stock_mood                         *)
(*   pages/portfolio_comparison.py  the stock selection of the page        *)
(*                                                                         *)
(* Floating point numbers are modelled as exact fractions n/d in lowest    *)
(* terms, extended with NaN and the two infinities, with numpy's rules for *)
(* division by zero, for infinities and for comparisons with NaN.  The     *)
(* rounding of binary64 is not modelled: sums, products and quotients are  *)
(* exact.  An irrational square root and a quantile of Student's t are     *)
(* kept as they are: a number is a fraction, or a fraction plus a root     *)
(* times, possibly, a quantile.                                            *)
(* The least squares fit of create_forecast is computed for closes that    *)
(* lie on a line in one of the calendar columns, where it is that line.    *)
(* Dates are day ordinals, day 0 being 1 January of EpochYear.             *)
(***************************************************************************)
EXTENDS Integers, Sequences, FiniteSets, TLC

VARIABLES
    pc,                  \* "args": inputs chosen, nothing called; then the name of the last step
    stock_data,          \* create_forecast's argument: [first, closes] or Empty
    months_ahead,        \* create_forecast's argument
    coef,                \* the fitted model and scaler of create_forecast
    predictions,         \* create_forecast's return value (one Series)
    unpacked,            \* the caller's `median, lower, upper = create_forecast(...)`
    forecast_data,       \* the Series given to calculate_forecast_returns / _confidence_intervals
    monthly_investment,  \* calculate_forecast_returns' argument
    portfolio,           \* the loop of calculate_portfolio_value, one record per period
    returns,             \* calculate_forecast_returns' return value
    confidence_level,    \* calculate_confidence_intervals' argument, in percent
    bands,               \* calculate_confidence_intervals' return value: [upper, lower]
    stock_info,          \* generate_stock_recommendation's argument: the fundamentals
    forecast_return_percentage,  \* generate_stock_recommendation's argument
    recommendation,      \* generate_stock_recommendation's return value: [label, reasons]
    argument,            \* the caller's object handed to a function of the core
    outcome,             \* how that call ended: a result, or the exception that left it
    forest,              \* train_predict_rf: what the fitted trees predict
    horizon,             \* train_predict_rf's argument
    current_sequence,    \* train_predict_rf: the window the next step predicts from
    ml_predictions,      \* train_predict_rf: one [mean, lower, upper] per step made
    ml_forecast,         \* generate_ml_forecast's return value: three series
    symbol,              \* get_stock_data's argument
    quote,               \* what the data provider quotes for the symbol: [hist, info]
    provider,            \* the objects the provider hands out: [hist, info, cached]
    fetched,             \* get_stock_data's return value: [hist, info]
    holdings,            \* per selected symbol, what get_financial_metrics returns
    portfolio_metrics,   \* calculate_portfolio_metrics' return value
    sectors,             \* the comparison page: the order the sector loop runs in
    session_state,       \* the comparison page: st.session_state
    script,              \* the comparison page: where the script run is
    price_data,          \* calculate_stock_mood's argument: [Close, Volume]
    mood_metrics,        \* calculate_stock_mood's argument: the metrics dict
    mood                 \* calculate_stock_mood's return value

vars == <<pc, stock_data, months_ahead, coef, predictions, unpacked, forecast_data,
          monthly_investment, portfolio, returns, confidence_level, bands,
          stock_info, forecast_return_percentage, recommendation, argument, outcome,
          forest, horizon, current_sequence, ml_predictions, ml_forecast,
          symbol, quote, provider, fetched, holdings, portfolio_metrics,
          sectors, session_state, script, price_data, mood_metrics, mood>>

\* The variables of the recommendation and of the calls with arbitrary arguments.
adviceVars == <<stock_info, forecast_return_percentage, recommendation>>
boundaryVars == <<argument, outcome>>
\* The variables of the tree ensemble, the data provider, the portfolio metrics,
\* the comparison page and the mood indicator.
mlVars == <<forest, horizon, current_sequence, ml_predictions, ml_forecast>>
providerVars == <<symbol, quote, provider, fetched>>
metricsVars == <<holdings, portfolio_metrics>>
pageVars == <<sectors, session_state, script>>
moodVars == <<price_data, mood_metrics, mood>>
laterVars == <<mlVars, providerVars, metricsVars, pageVars, moodVars>>

None == [k |-> "none"]

-----------------------------------------------------------------------------
(* Numbers *)

Abs(x) == IF x < 0 THEN -x ELSE x

RECURSIVE GCD(_, _)
GCD(a, b) == IF b = 0 THEN a ELSE GCD(b, a % b)

NaN == [k |-> "nan", n |-> 0, d |-> 1]
Inf(sign) == [k |-> "inf", n |-> sign, d |-> 1]

\* The fraction n/d (d # 0) in lowest terms with a positive denominator.
Frac(n, d) ==
    LET g == GCD(Abs(n), Abs(d))
        s == IF d < 0 THEN -1 ELSE 1
    IN  [k |-> "num", n |-> (s * n) \div g, d |-> (s * d) \div g]

Num(i) == [k |-> "num", n |-> i, d |-> 1]

IsNaN(x) == x.k = "nan"
\* A fraction: neither NaN, nor an infinity, nor an irrational number.
IsFinite(x) == x.k = "num"

\* Sum, product and inverse of fractions.
QAdd(x, y) == Frac(x.n * y.d + y.n * x.d, x.d * y.d)
QMul(x, y) == Frac(x.n * y.n, x.d * y.d)
QInv(x) == Frac(x.d, x.n)

\* a/b < c/d for a, c >= 0 and b, d > 0, by the whole parts of the two
\* fractions and then of the inverses of what is left (no product is formed,
\* so that the terms may be as large as an integer of the evaluation).
RECURSIVE FracLess(_, _, _, _)
FracLess(a, b, c, d) ==
    IF a \div b # c \div d THEN a \div b < c \div d
    ELSE IF c % d = 0 THEN FALSE
    ELSE IF a % b = 0 THEN TRUE
    ELSE FracLess(d, c % d, b, a % b)

\* The largest r in lo..hi with r * r <= x (lo * lo <= x < (hi + 1) * (hi + 1)).
RECURSIVE ISqrtIn(_, _, _)
ISqrtIn(x, lo, hi) ==
    IF lo = hi THEN lo
    ELSE LET mid == (lo + hi + 1) \div 2
         IN  IF mid * mid <= x THEN ISqrtIn(x, mid, hi) ELSE ISqrtIn(x, lo, mid - 1)

\* The whole part of the root of a whole number x >= 0.  (46340 is the largest
\* root whose square is a 32-bit integer.)
ISqrt(x) == ISqrtIn(x, 0, IF x < 46340 THEN x ELSE 46340)

IsSquare(x) == ISqrt(x) * ISqrt(x) = x

\* scipy.stats.t.ppf((1 + confidence_level) / 2, df) to the nearest thousandth
\* (12.706205 is 12706), for the confidence levels 90%, 95% and 99% and 1 to 29
\* degrees of freedom.  The quantile itself is kept as a symbol (TValue); the
\* table only bounds it, within a thousandth on either side, where the sign of
\* a number that holds it has to be decided.
TTable ==
    [c \in {90, 95, 99} |->
        CASE c = 90 -> <<6314, 2920, 2353, 2132, 2015, 1943, 1895, 1860, 1833, 1812,
                         1796, 1782, 1771, 1761, 1753, 1746, 1740, 1734, 1729, 1725,
                         1721, 1717, 1714, 1711, 1708, 1706, 1703, 1701, 1699>>
          [] c = 95 -> <<12706, 4303, 3182, 2776, 2571, 2447, 2365, 2306, 2262, 2228,
                         2201, 2179, 2160, 2145, 2131, 2120, 2110, 2101, 2093, 2086,
                         2080, 2074, 2069, 2064, 2060, 2056, 2052, 2048, 2045>>
          [] c = 99 -> <<63657, 9925, 5841, 4604, 4032, 3707, 3499, 3355, 3250, 3169,
                         3106, 3055, 3012, 2977, 2947, 2921, 2898, 2878, 2861, 2845,
                         2831, 2819, 2807, 2797, 2787, 2779, 2771, 2763, 2756>>]

\* An irrational number: n/d + s * sqrt(rn/rd) * t, where n/d and rn/rd > 0 are
\* fractions in lowest terms, s is 1 or -1, and t is 1 for q = << >> and
\* Student's t quantile of confidence level q[1] and q[2] degrees of freedom for
\* q = <<confidence, df>>.  The root and the quantile are kept as they are,
\* without rounding; a root of a fraction of two squares is that fraction.
IsSurd(x) == x.k = "surd"
Rational(x) == Frac(x.n, x.d)
Radicand(x) == Frac(x.rn, x.rd)
Surd(p, s, R, q) ==
    IF q = << >> /\ IsSquare(R.n) /\ IsSquare(R.d)
    THEN QAdd(p, Frac(s * ISqrt(R.n), ISqrt(R.d)))
    ELSE [k |-> "surd", n |-> p.n, d |-> p.d, s |-> s, rn |-> R.n, rd |-> R.d, q |-> q]

\* Whether the fraction x >= 0 is above the square of the fraction b > 0, and
\* whether it is below it: x / b against b.
AboveSquare(x, b) == FracLess(b.n, b.d, QMul(x, QInv(b)).n, QMul(x, QInv(b)).d)
BelowSquare(x, b) == FracLess(QMul(x, QInv(b)).n, QMul(x, QInv(b)).d, b.n, b.d)

\* The sign of an irrational number.  Where the fraction and the root pull in
\* opposite directions, the square of the fraction over the radicand is set
\* against 1, or against the square of the quantile: above the square of the
\* upper bound of the quantile the fraction decides, below the square of the
\* lower bound the root does.  (Between the two bounds, and for a quantile
\* outside TTable, the sign has no value here.)
SurdSign(z) ==
    LET x == QMul(QMul(Rational(z), Rational(z)), QInv(Radicand(z)))
    IN  IF z.n = 0 \/ (z.n > 0) = (z.s > 0) THEN z.s
        ELSE IF z.q = << >> THEN (IF FracLess(1, 1, x.n, x.d) THEN -z.s ELSE z.s)
        ELSE CASE AboveSquare(x, Frac(TTable[z.q[1]][z.q[2]] + 1, 1000)) -> -z.s
               [] BelowSquare(x, Frac(TTable[z.q[1]][z.q[2]] - 1, 1000)) -> z.s

\* IEEE 754 arithmetic as numpy and Python floats carry it out: NaN spreads
\* through every operation; an infinity absorbs every finite operand; the sum
\* of opposite infinities, the product of zero and an infinity and the quotient
\* of two infinities are NaN.
Sign(x) == IF IsSurd(x) THEN SurdSign(x)
           ELSE IF x.n > 0 THEN 1 ELSE IF x.n < 0 THEN -1 ELSE 0

RNeg(x) ==
    IF IsNaN(x) THEN NaN
    ELSE IF IsSurd(x) THEN [x EXCEPT !.n = -x.n, !.s = -x.s]
    ELSE [x EXCEPT !.n = -x.n]

\* The product of an irrational number and a fraction.
Scaled(x, c) ==
    IF c.n = 0 THEN Num(0)
    ELSE Surd(QMul(Rational(x), c), IF c.n > 0 THEN x.s ELSE -x.s,
              QMul(Radicand(x), QMul(c, c)), x.q)

\* Two irrational numbers add up when they hold the same root and quantile.
RAdd(x, y) ==
    IF IsNaN(x) \/ IsNaN(y) THEN NaN
    ELSE IF IsFinite(x) /\ IsFinite(y) THEN QAdd(x, y)
    ELSE IF x.k = "inf" /\ y.k = "inf" THEN (IF x.n = y.n THEN x ELSE NaN)
    ELSE IF y.k = "inf" THEN y
    ELSE IF x.k = "inf" THEN x
    ELSE IF IsFinite(y) THEN Surd(QAdd(Rational(x), y), x.s, Radicand(x), x.q)
    ELSE IF IsFinite(x) THEN Surd(QAdd(x, Rational(y)), y.s, Radicand(y), y.q)
    ELSE CASE x.q = y.q /\ Radicand(x) = Radicand(y) ->
                IF x.s = y.s
                THEN Surd(QAdd(Rational(x), Rational(y)), x.s,
                          QMul(Num(4), Radicand(x)), x.q)
                ELSE QAdd(Rational(x), Rational(y))

RSub(x, y) == RAdd(x, RNeg(y))

\* Two irrational numbers multiply when both are a root alone (times the
\* quantile, for one of them at most).
RMul(x, y) ==
    IF IsNaN(x) \/ IsNaN(y) THEN NaN
    ELSE IF IsFinite(x) /\ IsFinite(y) THEN QMul(x, y)
    ELSE IF x.k = "inf" \/ y.k = "inf"
         THEN (IF Sign(x) * Sign(y) = 0 THEN NaN ELSE Inf(Sign(x) * Sign(y)))
    ELSE IF IsFinite(y) THEN Scaled(x, y)
    ELSE IF IsFinite(x) THEN Scaled(y, x)
    ELSE CASE x.n = 0 /\ y.n = 0 /\ (x.q = << >> \/ y.q = << >>) ->
                Surd(Num(0), x.s * y.s, QMul(Radicand(x), Radicand(y)), x.q \o y.q)

\* numpy's true division: x/0 is NaN for x = 0 and a signed infinity otherwise,
\* with a RuntimeWarning and no exception; a finite number over an infinity is
\* zero.  (The sign of a zero is not kept: every zero is +0.)  The divisor is a
\* fraction, an infinity or a root alone.
RDiv(x, y) ==
    IF IsNaN(x) \/ IsNaN(y) THEN NaN
    ELSE IF IsFinite(x) /\ IsFinite(y)
         THEN IF y.n = 0 THEN (IF x.n = 0 THEN NaN ELSE Inf(Sign(x)))
              ELSE Frac(x.n * y.d, x.d * y.n)
    ELSE IF x.k = "inf" /\ y.k = "inf" THEN NaN
    ELSE IF y.k = "inf" THEN Num(0)
    ELSE IF x.k = "inf" THEN Inf(IF Sign(y) < 0 THEN -x.n ELSE x.n)
    ELSE IF IsFinite(y) THEN (IF y.n = 0 THEN Inf(Sign(x)) ELSE Scaled(x, QInv(y)))
    ELSE CASE y.n = 0 /\ y.q = << >> ->
                RMul(x, Surd(Num(0), y.s, QInv(Radicand(y)), << >>))

\* The sign of x - y for two finite numbers, one of them irrational at least.
\* Two numbers with the same fraction and quantile compare as their roots do.
DiffSign(x, y) ==
    IF IsSurd(x) /\ IsSurd(y) /\ Rational(x) = Rational(y) /\ x.q = y.q
    THEN IF x.s # y.s THEN x.s
         ELSE IF Radicand(x) = Radicand(y) THEN 0
         ELSE IF FracLess(x.rn, x.rd, y.rn, y.rd) THEN -x.s ELSE x.s
    ELSE Sign(RSub(x, y))

\* Comparisons: every comparison with NaN is false; -inf is below and +inf above
\* every finite number.
RLt(x, y) ==
    IF IsNaN(x) \/ IsNaN(y) THEN FALSE
    ELSE IF IsFinite(x) /\ IsFinite(y) THEN x.n * y.d < y.n * x.d
    ELSE IF x.k = "inf" /\ y.k = "inf" THEN x.n < y.n
    ELSE IF y.k = "inf" THEN y.n > 0
    ELSE IF x.k = "inf" THEN x.n < 0
    ELSE DiffSign(x, y) < 0
RLe(x, y) ==
    IF IsNaN(x) \/ IsNaN(y) THEN FALSE
    ELSE IF IsFinite(x) /\ IsFinite(y) THEN x.n * y.d <= y.n * x.d
    ELSE IF x.k = "inf" /\ y.k = "inf" THEN x.n <= y.n
    ELSE IF y.k = "inf" THEN y.n > 0
    ELSE IF x.k = "inf" THEN x.n < 0
    ELSE DiffSign(x, y) <= 0
RGt(x, y) == RLt(y, x)
RGe(x, y) == RLe(y, x)

\* np.sqrt of a fraction, of NaN and of an infinity: NaN for NaN and for a
\* negative number, +inf for +inf, and the root itself otherwise, a fraction
\* when the argument is a fraction of two squares and an irrational number
\* when it is not.  (numpy returns the binary64 nearest to that root.)
RSqrt(x) ==
    IF IsNaN(x) \/ (~IsSurd(x) /\ x.n < 0) THEN NaN
    ELSE IF x.k = "inf" THEN x
    ELSE CASE IsFinite(x) -> Surd(Num(0), 1, x, << >>)

\* stats.t.ppf((1 + confidence_level) / 2, df): NaN for df = 0 (a forecast of
\* one row), and the quantile itself otherwise.
TValue(confidence, df) ==
    IF df < 1 THEN NaN ELSE Surd(Num(0), 1, Num(1), <<confidence, df>>)

-----------------------------------------------------------------------------
(* Dates *)

EpochYear == 2025

IsLeap(y) == (y % 4 = 0 /\ y % 100 # 0) \/ y % 400 = 0

DaysInMonth(y, m) ==
    IF m = 2 THEN (IF IsLeap(y) THEN 29 ELSE 28)
    ELSE IF m \in {4, 6, 9, 11} THEN 30 ELSE 31

RECURSIVE YMDFrom(_, _, _)
YMDFrom(y, m, rest) ==
    IF rest < DaysInMonth(y, m)
    THEN [year |-> y, month |-> m, day |-> rest + 1]
    ELSE YMDFrom(IF m = 12 THEN y + 1 ELSE y, IF m = 12 THEN 1 ELSE m + 1,
                 rest - DaysInMonth(y, m))

\* The calendar date of a day ordinal (ordinals are >= 0).
DateOf(date) == YMDFrom(EpochYear, 1, date)

\* The month a date falls in, numbered from 0 for January of EpochYear.
MonthKey(date) == LET ymd == DateOf(date) IN (ymd.year - EpochYear) * 12 + (ymd.month - 1)

RECURSIVE DaysBefore(_, _)
DaysBefore(y, m) ==
    IF y = EpochYear /\ m = 1 THEN 0
    ELSE LET py == IF m = 1 THEN y - 1 ELSE y
             pm == IF m = 1 THEN 12 ELSE m - 1
         IN  DaysBefore(py, pm) + DaysInMonth(py, pm)

\* The last day of the k-th month since January of EpochYear (k = 0 is January).
MonthEnd(k) ==
    LET y == EpochYear + k \div 12
        m == (k % 12) + 1
    IN  DaysBefore(y, m) + DaysInMonth(y, m) - 1

-----------------------------------------------------------------------------
(* Series: a sequence of rows [date, v] in ascending date order *)

EmptySeries == << >>

Row(date, v) == [date |-> date, v |-> v]

Last(s) == s[Len(s)]

\* DataFrame.dropna(subset=['Close'])
DropNa(df) == SelectSeq(df, LAMBDA r : ~IsNaN(r.v))

\* The value .last() gives a month: the last row of the month, NaN for a month
\* without rows.  `keys` holds the month of every row.
LastInMonth(df, keys, key) ==
    LET rows == {i \in 1..Len(df) : keys[i] = key}
    IN  IF rows = {} THEN NaN ELSE df[CHOOSE i \in rows : \A j \in rows : j <= i].v

\* A resampling that keeps only the months that hold a row.
ResampleSkippingEmptyMonths(df) ==
    IF Len(df) = 0 THEN EmptySeries
    ELSE CHOOSE r \in
            {SelectSeq([j \in 1..(keys[Len(df)] - keys[1] + 1) |->
                           Row(MonthEnd(keys[1] + j - 1),
                               LastInMonth(df, keys, keys[1] + j - 1))],
                       LAMBDA row : \E i \in 1..Len(df) : MonthKey(row.date) = keys[i]) :
                keys \in {[i \in 1..Len(df) |-> MonthKey(df[i].date)]}} : TRUE

\* DataFrame.resample('ME').last(): one row per calendar month from the month of
\* the first row to the month of the last row, labelled with the month's end.
ResampleMonthEndLast(df) ==
    IF Len(df) = 0 THEN EmptySeries
    ELSE CHOOSE r \in
            {[j \in 1..(keys[Len(df)] - keys[1] + 1) |->
                 Row(MonthEnd(keys[1] + j - 1), LastInMonth(df, keys, keys[1] + j - 1))] :
                keys \in {[i \in 1..Len(df) |-> MonthKey(df[i].date)]}} : TRUE

-----------------------------------------------------------------------------
(* utils/analysis.py: calculate_portfolio_value *)

\* The iteration without its guard on the price: it buys at any price.
PeriodStepUnguarded(done, price, monthly) ==
    LET investment_before == IF Len(done) = 0 THEN Num(0) ELSE Last(done).investment_amount
        shares_before     == IF Len(done) = 0 THEN Num(0) ELSE Last(done).shares
        shares            == RAdd(shares_before, RDiv(Num(monthly), price))
    IN  [price |-> price, investment_amount |-> RAdd(investment_before, Num(monthly)),
         shares |-> shares, value |-> RMul(shares, price)]

\* The iteration valuing the shares held before the period's purchase.
PeriodStepValuedBeforePurchase(done, price, monthly) ==
    LET investment_before == IF Len(done) = 0 THEN Num(0) ELSE Last(done).investment_amount
        shares_before     == IF Len(done) = 0 THEN Num(0) ELSE Last(done).shares
        investment_amount == RAdd(investment_before, Num(monthly))
    IN  IF ~IsNaN(price) /\ RGt(price, Num(0))
        THEN [price |-> price, investment_amount |-> investment_amount,
              shares |-> RAdd(shares_before, RDiv(Num(monthly), price)),
              value |-> RMul(shares_before, price)]
        ELSE [price |-> price, investment_amount |-> investment_amount,
              shares |-> shares_before,
              value |-> IF Len(done) # 0 THEN Last(done).value ELSE investment_amount]

\* One iteration of the loop over the monthly prices.  `done` holds the records
\* of the iterations before it; a record keeps the loop's variables after the
\* iteration and the value appended to portfolio_value.
PeriodStep(done, price, monthly) ==
    LET investment_before == IF Len(done) = 0 THEN Num(0) ELSE Last(done).investment_amount
        shares_before     == IF Len(done) = 0 THEN Num(0) ELSE Last(done).shares
        investment_amount == RAdd(investment_before, Num(monthly))
    IN  IF ~IsNaN(price) /\ RGt(price, Num(0))
        THEN LET new_shares == RDiv(Num(monthly), price)
                 shares     == RAdd(shares_before, new_shares)
             IN  [price |-> price, investment_amount |-> investment_amount,
                  shares |-> shares, value |-> RMul(shares, price)]
        ELSE [price |-> price, investment_amount |-> investment_amount,
              shares |-> shares_before,
              value |-> IF Len(done) # 0 THEN Last(done).value ELSE investment_amount]

RECURSIVE PortfolioLoop(_, _, _)
PortfolioLoop(monthly_data, monthly, i) ==
    IF i = 0 THEN << >>
    ELSE LET done == PortfolioLoop(monthly_data, monthly, i - 1)
         IN  Append(done, PeriodStep(done, monthly_data[i].v, monthly))

\* The loop's records for a frame of closes: empty when the frame is empty.
PortfolioTrace(df, monthly) ==
    IF Len(df) = 0 THEN << >>
    ELSE CHOOSE r \in
            {PortfolioLoop(monthly_data, monthly, Len(monthly_data)) :
                monthly_data \in {ResampleMonthEndLast(DropNa(df))}} : TRUE

\* The Series returned: the appended values, indexed by the month ends.
calculate_portfolio_value(df, monthly) ==
    CHOOSE r \in
        {[j \in 1..Len(trace) |-> Row(monthly_data[j].date, trace[j].value)] :
            trace \in {PortfolioTrace(df, monthly)},
            monthly_data \in {ResampleMonthEndLast(DropNa(df))}} : TRUE

-----------------------------------------------------------------------------
(* utils/forecasting.py: calculate_forecast_returns *)

Neutral == <<Num(0), Num(0), Num(0)>>

calculate_forecast_returns(data, monthly) ==
    IF Len(data) = 0 THEN Neutral
    ELSE CHOOSE r \in
            {IF Len(portfolio_values) = 0 THEN Neutral
             ELSE LET total_months      == Len(portfolio_values)
                      total_investment  == Num(monthly * total_months)
                      final_value       == Last(portfolio_values).v
                      total_return      == RSub(final_value, total_investment)
                      return_percentage ==
                          RMul(RDiv(RSub(final_value, total_investment), total_investment),
                               Num(100))
                  IN  <<total_investment, total_return, return_percentage>> :
                portfolio_values \in {calculate_portfolio_value(data, monthly)}} : TRUE

-----------------------------------------------------------------------------
(* Inputs of the return projection *)

MaxMonths == 3      \* calendar months a forecast given to the projection may span
MaxPrice == 3       \* largest price in such a forecast

FirstMonth == 0     \* the forecasts start in January of EpochYear

Absent == [k |-> "absent", n |-> 0, d |-> 1]

\* What a month of the input holds: no row, a row without a price, or a row with
\* a negative, zero or positive price.
Cells == {Absent, NaN, Inf(1), Inf(-1)} \cup {Num(p) : p \in -1..MaxPrice}

RECURSIVE SeriesOf(_, _)
SeriesOf(cells, j) ==
    IF j = 0 THEN EmptySeries
    ELSE LET before == SeriesOf(cells, j - 1)
         IN  IF cells[j] = Absent THEN before
             ELSE Append(before, Row(MonthEnd(FirstMonth + j - 1), cells[j]))

\* Every series with at most one row per month, dated at the month's end.
ForecastInputs == {SeriesOf(cells, MaxMonths) : cells \in [1..MaxMonths -> Cells]}

\* No investment, the default of the functions, and the amount the tests use.
MonthlyInputs == {0, 100, 1000}

\* No recommendation asked for, no call with an arbitrary argument made.
NoAdvice ==
    /\ stock_info = None /\ forecast_return_percentage = None /\ recommendation = None
NoBoundaryCall == argument = None /\ outcome = None

\* Nothing of the tree ensemble, the data provider, the portfolio metrics, the
\* comparison page or the mood indicator has run.
NoMlForecast ==
    /\ forest = None /\ horizon = 0 /\ current_sequence = << >> /\ ml_predictions = << >>
    /\ ml_forecast = None
NoProvider == symbol = "" /\ quote = None /\ provider = None /\ fetched = None
NoMetrics == holdings = << >> /\ portfolio_metrics = None
NoPage == sectors = << >> /\ session_state = None /\ script = None
NoMood == price_data = None /\ mood_metrics = None /\ mood = None

Idle ==
    /\ stock_data = None /\ months_ahead = 0 /\ coef = None
    /\ predictions = None /\ unpacked = None
    /\ confidence_level = 0 /\ bands = None
    /\ NoBoundaryCall

InitReturns ==
    /\ pc = "args"
    /\ forecast_data \in ForecastInputs
    /\ monthly_investment \in MonthlyInputs
    /\ portfolio = << >>
    /\ returns = None
    /\ Idle /\ NoAdvice
    /\ NoMlForecast /\ NoProvider /\ NoMetrics /\ NoPage /\ NoMood

\* calculate_portfolio_value(df, monthly_investment) called on its own.
CallPortfolioValue ==
    /\ pc = "args"
    /\ pc' = "calculate_portfolio_value"
    /\ portfolio' = PortfolioTrace(forecast_data, monthly_investment)
    /\ UNCHANGED <<stock_data, months_ahead, coef, predictions, unpacked, forecast_data,
                   monthly_investment, returns, confidence_level, bands, adviceVars,
                   boundaryVars, laterVars>>

\* calculate_forecast_returns(forecast_data, monthly_investment), with the call of
\* calculate_portfolio_value it makes.
CallForecastReturns ==
    /\ pc = "args"
    /\ pc' = "calculate_forecast_returns"
    /\ portfolio' = PortfolioTrace(forecast_data, monthly_investment)
    /\ returns' = calculate_forecast_returns(forecast_data, monthly_investment)
    /\ UNCHANGED <<stock_data, months_ahead, coef, predictions, unpacked, forecast_data,
                   monthly_investment, confidence_level, bands, adviceVars, boundaryVars,
                   laterVars>>

NextReturns == CallPortfolioValue \/ CallForecastReturns

SpecReturns == InitReturns /\ [][NextReturns]_vars

-----------------------------------------------------------------------------
(* utils/forecasting.py: calculate_confidence_intervals *)

RollingWindow == 30

\* The sum of s[from..to], by halves.
RECURSIVE SumOver(_, _, _)
SumOver(s, from, to) ==
    IF from > to THEN 0
    ELSE IF from = to THEN s[from]
    ELSE LET mid == (from + to) \div 2
         IN  SumOver(s, from, mid) + SumOver(s, mid + 1, to)

\* The least common denominator of the values of s[from..to], by halves (the
\* denominator of NaN and of an infinity is 1).
RECURSIVE DenominatorOver(_, _, _)
DenominatorOver(s, from, to) ==
    IF from > to THEN 1
    ELSE IF from = to THEN s[from].v.d
    ELSE LET mid   == (from + to) \div 2
             left  == DenominatorOver(s, from, mid)
             right == DenominatorOver(s, mid + 1, to)
         IN  (left \div GCD(left, right)) * right

\* The column a rolling window works on: rolling() turns an infinity into NaN
\* and leaves every NaN out of its sums and its count of observations.  The
\* observed values are held as multiples v[j] of 1/scale, seen[j] is 1 for an
\* observed row and 0 for a NaN.
Values(s) ==
    CHOOSE xs \in
        {[scale |-> scale,
          v     |-> [j \in 1..Len(s) |->
                        IF IsFinite(s[j].v) THEN s[j].v.n * (scale \div s[j].v.d) ELSE 0],
          seen  |-> [j \in 1..Len(s) |-> IF IsFinite(s[j].v) THEN 1 ELSE 0]] :
            scale \in {DenominatorOver(s, 1, Len(s))}} :
        TRUE

\* Series.rolling(window, min_periods).std() at row i: the sample standard
\* deviation (ddof = 1) of the observations of the window; NaN when the window
\* holds fewer than min_periods observations, and for one observation.
RollingStd(xs, window, min_periods, i) ==
    LET from  == IF i - window + 1 < 1 THEN 1 ELSE i - window + 1
        count == SumOver(xs.seen, from, i)
        sum   == SumOver(xs.v, from, i)
        sumsq == SumOver([j \in from..i |-> xs.v[j] * xs.v[j]], from, i)
    IN  IF count < min_periods \/ count < 2 THEN NaN
        ELSE RDiv(RSqrt(Frac(count * sumsq - sum * sum, count * (count - 1))),
                  Num(xs.scale))

\* Series.rolling(window).mean() at row i: NaN until the window is full, and
\* while it holds a NaN (min_periods is the window).
RollingMean(xs, window, i) ==
    IF i < window THEN NaN
    ELSE IF SumOver(xs.seen, i - window + 1, i) < window THEN NaN
    ELSE Frac(SumOver(xs.v, i - window + 1, i), window * xs.scale)

\* Series.clip(lower=0): NaN stays NaN; -inf is below the bound as every
\* smaller number is.
ClipLower(x, bound) == IF RLt(x, bound) THEN bound ELSE x

Margin(s, confidence, i) ==
    LET rolling_std == RollingStd(Values(s), RollingWindow, 1, i)
        t_value     == TValue(confidence, Len(s) - 1)
        time_factor == RSqrt(Frac(i, Len(s)))
    IN  RMul(RMul(t_value, rolling_std), time_factor)

\* The pair returned, upper first.
calculate_confidence_intervals(s, confidence) ==
    IF Len(s) = 0 THEN [upper |-> EmptySeries, lower |-> EmptySeries]
    ELSE [upper |-> [i \in 1..Len(s) |->
                        Row(s[i].date, RAdd(s[i].v, Margin(s, confidence, i)))],
          lower |-> [i \in 1..Len(s) |->
                        Row(s[i].date,
                            ClipLower(RSub(s[i].v, Margin(s, confidence, i)), Num(0)))]]

MaxForecastLen == 4    \* longest point forecast given to the function

PointValues == {-2, 0, 1, 5}

RECURSIVE DailySeries(_, _)
DailySeries(values, j) ==
    IF j = 0 THEN EmptySeries
    ELSE Append(DailySeries(values, j - 1), Row(j - 1, Num(values[j])))

\* Every point forecast of at most MaxForecastLen consecutive days.
PointForecasts ==
    UNION {{DailySeries(values, len) : values \in [1..len -> PointValues]} :
              len \in 0..MaxForecastLen}

InitIntervals ==
    /\ pc = "args"
    /\ forecast_data \in PointForecasts
    /\ confidence_level \in {90, 95}
    /\ bands = None
    /\ stock_data = None /\ months_ahead = 0 /\ coef = None
    /\ predictions = None /\ unpacked = None
    /\ monthly_investment = 0 /\ portfolio = << >> /\ returns = None
    /\ NoAdvice /\ NoBoundaryCall
    /\ NoMlForecast /\ NoProvider /\ NoMetrics /\ NoPage /\ NoMood

CallConfidenceIntervals ==
    /\ pc = "args"
    /\ pc' = "calculate_confidence_intervals"
    /\ bands' = calculate_confidence_intervals(forecast_data, confidence_level)
    /\ UNCHANGED <<stock_data, months_ahead, coef, predictions, unpacked, forecast_data,
                   monthly_investment, portfolio, returns, confidence_level,
                   adviceVars, boundaryVars, laterVars>>

NextIntervals == CallConfidenceIntervals

SpecIntervals == InitIntervals /\ [][NextIntervals]_vars

-----------------------------------------------------------------------------
(* utils/forecasting.py: create_forecast *)

MA50Window == 50
MA200Window == 200
VolatilityWindow == 30
DaysPerMonth == 30

\* Timestamp.dayofweek, Monday being 0: day 0 (1 January 2025) is a Wednesday.
DayOfWeek(date) == (2 + date) % 7

\* The first row in lo..hi of a column that holds a value, 0 when none does.
RECURSIVE FirstDefinedIn(_, _, _)
FirstDefinedIn(col, lo, hi) ==
    IF lo > hi THEN 0
    ELSE IF lo = hi THEN (IF IsNaN(col[lo]) THEN 0 ELSE lo)
    ELSE LET mid  == (lo + hi) \div 2
             left == FirstDefinedIn(col, lo, mid)
         IN  IF left # 0 THEN left ELSE FirstDefinedIn(col, mid + 1, hi)

\* fillna(method='bfill') on a column: every NaN takes the next defined value
\* below it, and stays NaN when there is none.
Bfill(col) ==
    [i \in 1..Len(col) |->
        IF ~IsNaN(col[i]) THEN col[i]
        ELSE LET next == FirstDefinedIn(col, i + 1, Len(col))
             IN  IF next = 0 THEN NaN ELSE col[next]]

\* The feature rows of the history (df after the backfill), one per record.
\* A rolling column of the closes, before the backfill.
MA50Column(close) == [i \in 1..Len(close.v) |-> RollingMean(close, MA50Window, i)]
MA200Column(close) == [i \in 1..Len(close.v) |-> RollingMean(close, MA200Window, i)]
VolatilityColumn(close) ==
    [i \in 1..Len(close.v) |-> RollingStd(close, VolatilityWindow, VolatilityWindow, i)]

Features(df) ==
    CHOOSE X \in
        {[i \in 1..Len(df) |->
            [Days |-> i - 1, Month |-> DateOf(df[i].date).month,
             DayOfWeek |-> DayOfWeek(df[i].date),
             MA50 |-> ma50[i], MA200 |-> ma200[i], Volatility |-> vol[i]]] :
            ma50  \in {Bfill(c) : c \in {MA50Column(close) : close \in {Values(df)}}},
            ma200 \in {Bfill(c) : c \in {MA200Column(close) : close \in {Values(df)}}},
            vol   \in {Bfill(c) : c \in {VolatilityColumn(close) : close \in {Values(df)}}}} :
        TRUE

\* LinearRegression.fit raises ValueError on a NaN in X (StandardScaler lets
\* NaN through).
HasNaN(X) ==
    \E i \in 1..Len(X) : IsNaN(X[i].MA50) \/ IsNaN(X[i].MA200) \/ IsNaN(X[i].Volatility)

\* pd.date_range(start=last_date, periods=months_ahead * 30 + 1, freq='D')[1:]
FutureDates(last_date, months) == [i \in 1..(months * DaysPerMonth) |-> last_date + i]

FutureRowSkippingADay(X, future_dates, i) ==
    [Days |-> Len(X) + i, Month |-> DateOf(future_dates[i]).month,
     DayOfWeek |-> DayOfWeek(future_dates[i]),
     MA50 |-> Last(X).MA50, MA200 |-> Last(X).MA200, Volatility |-> Last(X).Volatility]

FutureRowExtendingAverages(X, future_dates, i) ==
    [Days |-> Len(X) + i - 1, Month |-> DateOf(future_dates[i]).month,
     DayOfWeek |-> DayOfWeek(future_dates[i]),
     MA50 |-> RAdd(Last(X).MA50, Frac(i - 1, MA50Window)),
     MA200 |-> RAdd(Last(X).MA200, Frac(i - 1, MA200Window)),
     Volatility |-> Last(X).Volatility]

\* The feature row of the i-th future date.
FutureRow(X, future_dates, i) ==
    [Days |-> Len(X) + i - 1, Month |-> DateOf(future_dates[i]).month,
     DayOfWeek |-> DayOfWeek(future_dates[i]),
     MA50 |-> Last(X).MA50, MA200 |-> Last(X).MA200, Volatility |-> Last(X).Volatility]

\* future_df: the feature rows of the future dates.
FutureFeatures(X, future_dates) ==
    [i \in 1..Len(future_dates) |-> FutureRow(X, future_dates, i)]

\* The columns of X that hold whole numbers, and all of them.
CalendarFeatures == {"Days", "Month", "DayOfWeek"}
FeatureNames == CalendarFeatures \cup {"MA50", "MA200", "Volatility"}

\* scaler.mean_ of a calendar column, and the mean of y = df['Close'].
FeatureMean(X, f) == Frac(SumOver([i \in 1..Len(X) |-> X[i][f]], 1, Len(X)), Len(X))
CloseMean(df) ==
    CHOOSE m \in {Frac(SumOver(close.v, 1, Len(df)), Len(df) * close.scale) :
                     close \in {Values(df)}} : TRUE

\* The rise of the closes per unit of the calendar column f, taken between the
\* first record and one with another value of f; 0 for a constant column.
SlopeIn(X, df, f) ==
    IF \A j \in 1..Len(X) : X[j][f] = X[1][f] THEN Num(0)
    ELSE LET j == CHOOSE j \in 1..Len(X) : X[j][f] # X[1][f]
         IN  RDiv(RSub(df[j].v, df[1].v), Num(X[j][f] - X[1][f]))

\* Whether every close lies on the line of that slope through the first record.
Explains(X, df, f) ==
    \A slope \in {SlopeIn(X, df, f)} :
       \A i \in 1..Len(X) :
          df[i].v = RAdd(df[1].v, RMul(slope, Num(X[i][f] - X[1][f])))

\* scaler.fit_transform(X) and model.fit(X_scaled, y) for closes that one
\* calendar column explains without residual: the least squares are then that
\* line, the unique solution as the other columns that vary are linearly
\* independent of it, and every other weight is 0 (a constant column is scaled
\* to zeros and gets the weight 0).  intercept is model.intercept_, the mean of
\* y, since the scaled columns are centred; means is scaler.mean_.  A weight is
\* kept per unit of the unscaled column: the scale the scaler divides the
\* column by multiplies the weight of the scaled column, and cancels in every
\* prediction.  Closes that no calendar column explains have no value here.
Fit(X, df) ==
    CHOOSE c \in
        {[intercept |-> CloseMean(df),
          weights   |-> [f \in FeatureNames |->
                            IF f \in CalendarFeatures /\ Explains(X, df, f)
                            THEN SlopeIn(X, df, f) ELSE Num(0)],
          means     |-> [f \in CalendarFeatures |-> FeatureMean(X, f)]]} :
        \E f \in CalendarFeatures : Explains(X, df, f)

\* The part of a prediction a column contributes: its weight times the distance
\* of the row from the column's mean (scaler.transform, then the weight).
Contribution(c, row, f) ==
    IF c.weights[f] = Num(0) THEN Num(0)
    ELSE RMul(c.weights[f], RSub(Num(row[f]), c.means[f]))

\* model.predict(scaler.transform(row)): the intercept and the contributions of
\* the columns.  (The three rolling columns weigh 0 in every fit there is.)
Predict(c, row) ==
    RAdd(RAdd(c.intercept, Contribution(c, row, "Days")),
         RAdd(Contribution(c, row, "Month"), Contribution(c, row, "DayOfWeek")))

CreateForecastFittingNaN(df, months) ==
    IF Len(df) = 0 THEN EmptySeries
    ELSE CHOOSE r \in
            {IF Len(future_dates) = 0 THEN EmptySeries
             ELSE [i \in 1..Len(future_dates) |->
                      Row(future_dates[i], Predict(c, FutureRow(X, future_dates, i)))] :
                X \in {Features(df)},
                c \in {Fit(Features(df), df)},
                future_dates \in {FutureDates(Last(df).date, months)}} : TRUE

\* The Series returned.  Every exception inside the try block ends in the empty
\* Series: the fit on features with NaN, and the transform of no future rows.
create_forecast(df, months) ==
    IF Len(df) = 0 THEN EmptySeries
    ELSE CHOOSE r \in
            {IF HasNaN(X) THEN EmptySeries
             ELSE IF Len(future_dates) = 0 THEN EmptySeries
             ELSE CHOOSE series \in
                     {[i \in 1..Len(future_dates) |->
                          Row(future_dates[i], Predict(c, FutureRow(X, future_dates, i)))] :
                         c \in {Fit(X, df)}} : TRUE :
                X \in {Features(df)},
                future_dates \in {FutureDates(Last(df).date, months)}} : TRUE

\* `model` and `scaler` after the call: None when the fit was not reached or
\* raised.
FittedModel(df) ==
    IF Len(df) = 0 THEN None
    ELSE CHOOSE c \in {IF HasNaN(X) THEN None ELSE Fit(X, df) : X \in {Features(df)}} : TRUE

\* The callers' `median, lower, upper = create_forecast(...)`: iterating a Series
\* yields its values, so the assignment needs a Series of exactly three values
\* and raises ValueError otherwise.
Unpack3(result) ==
    IF Len(result) = 3
    THEN [k |-> "values", median |-> result[1].v, lower |-> result[2].v,
          upper |-> result[3].v]
    ELSE [k |-> "ValueError"]

MaxMonthsAhead == 6    \* largest horizon asked for

\* Daily closes from the day `first` on: 101, 102, ... or 399, 398, ...
History(first, n, rising) ==
    [i \in 1..n |-> Row(first + i - 1, Num(IF rising THEN 100 + i ELSE 400 - i))]

\* No record, one, and lengths around the three rolling windows; 100 is the
\* length the tests use.
HistoryLengths == {0, 1, 29, 30, 100, 199, 200, 201}

\* First dates: 1 January, 15 June and 15 July 2025, so that a history of 200
\* records ends on 19 July 2025, 31 December 2025 or 30 January 2026.
StartDays == {0, 165, 195}

\* The same closes on trading days only, from Wednesday 1 January 2025 on:
\* no record on Saturdays and Sundays.
TradingHistory(n, rising) ==
    [i \in 1..n |-> Row((i - 1) + 2 * ((i + 1) \div 5),
                        Num(IF rising THEN 100 + i ELSE 400 - i))]

Histories ==
    {History(first, n, rising) : first \in StartDays, n \in HistoryLengths,
                                 rising \in BOOLEAN}
    \cup {TradingHistory(n, rising) : n \in {30, 200}, rising \in BOOLEAN}

InitForecast ==
    /\ pc = "args"
    /\ stock_data \in Histories
    /\ months_ahead \in 0..MaxMonthsAhead
    /\ coef = None /\ predictions = None /\ unpacked = None
    /\ forecast_data = None /\ monthly_investment = 0
    /\ portfolio = << >> /\ returns = None
    /\ confidence_level = 0 /\ bands = None
    /\ NoAdvice /\ NoBoundaryCall
    /\ NoMlForecast /\ NoProvider /\ NoMetrics /\ NoPage /\ NoMood

\* create_forecast(stock_data, months_ahead)
CallCreateForecast ==
    /\ pc = "args"
    /\ pc' = "create_forecast"
    /\ coef' = FittedModel(stock_data)
    /\ predictions' = create_forecast(stock_data, months_ahead)
    /\ UNCHANGED <<stock_data, months_ahead, unpacked, forecast_data, monthly_investment,
                   portfolio, returns, confidence_level, bands, adviceVars, boundaryVars,
                   laterVars>>

\* median, lower, upper = create_forecast(...)   (tests, main.py, the simulator page)
UnpackForecast ==
    /\ pc = "create_forecast"
    /\ pc' = "unpack"
    /\ unpacked' = Unpack3(predictions)
    /\ UNCHANGED <<stock_data, months_ahead, coef, predictions, forecast_data,
                   monthly_investment, portfolio, returns, confidence_level, bands,
                   adviceVars, boundaryVars, laterVars>>

NextForecast == CallCreateForecast \/ UnpackForecast

SpecForecast == InitForecast /\ [][NextForecast]_vars

\* Histories of level closes: the fit is the level, and so is every prediction.
LevelHistory(first, n) == [i \in 1..n |-> Row(first + i - 1, Num(100))]

\* calculate_forecast_returns(create_forecast(stock_data, months_ahead),
\* monthly_investment): the two functions called in turn, the Series of the
\* first handed to the second as it is.  (Every caller in the repository
\* unpacks the Series first: UnpackForecast.)
InitProjection ==
    /\ pc = "args"
    /\ stock_data \in {LevelHistory(first, n) : first \in StartDays, n \in HistoryLengths}
    /\ months_ahead \in 0..MaxMonthsAhead
    /\ coef = None /\ predictions = None /\ unpacked = None
    /\ forecast_data = None /\ monthly_investment = 0
    /\ portfolio = << >> /\ returns = None
    /\ confidence_level = 0 /\ bands = None
    /\ NoAdvice /\ NoBoundaryCall
    /\ NoMlForecast /\ NoProvider /\ NoMetrics /\ NoPage /\ NoMood

CallReturnsOnForecast ==
    /\ pc = "create_forecast"
    /\ pc' = "calculate_forecast_returns"
    /\ forecast_data' = predictions
    /\ \E monthly \in MonthlyInputs :
          /\ monthly_investment' = monthly
          /\ portfolio' = PortfolioTrace(predictions, monthly)
          /\ returns' = calculate_forecast_returns(predictions, monthly)
    /\ UNCHANGED <<stock_data, months_ahead, coef, predictions, unpacked,
                   confidence_level, bands, adviceVars, boundaryVars, laterVars>>

NextProjection == CallCreateForecast \/ CallReturnsOnForecast

SpecProjection == InitProjection /\ [][NextProjection]_vars

-----------------------------------------------------------------------------
(* utils/forecasting.py: generate_stock_recommendation *)

\* A Python value that is not a number: the string 'N/A'.
NotAvailable == [k |-> "str", s |-> "N/A"]

\* int and float values, NaN and the infinities included.
IsNumber(v) == v.k \in {"num", "nan", "inf"}

\* The exceptions the body can raise.
AttributeError == [k |-> "AttributeError"]
TypeError == [k |-> "TypeError"]

\* What a rule adds: points and the reasons appended.
Added(points, reasons) == [k |-> "ok", score |-> points, reasons |-> reasons]

\* dict.get(key, default)
Get(dict, key, default) == IF key \in DOMAIN dict THEN dict[key] ELSE default

PeRuleExclusiveBounds(pe_ratio) ==
    IF ~IsNumber(pe_ratio) THEN TypeError
    ELSE IF RLt(Num(0), pe_ratio) /\ RLt(pe_ratio, Num(15))
         THEN Added(2, <<"Attractive P/E ratio">>)
    ELSE IF RLt(Num(15), pe_ratio) /\ RLt(pe_ratio, Num(25))
         THEN Added(1, <<"Moderate P/E ratio">>)
    ELSE Added(0, << >>)

\* `if 0 < pe_ratio <= 15: ... elif 15 < pe_ratio <= 25: ...`; comparing a number
\* with None or a string raises TypeError.
PeRule(pe_ratio) ==
    IF ~IsNumber(pe_ratio) THEN TypeError
    ELSE IF RLt(Num(0), pe_ratio) /\ RLe(pe_ratio, Num(15))
         THEN Added(2, <<"Attractive P/E ratio">>)
    ELSE IF RLt(Num(15), pe_ratio) /\ RLe(pe_ratio, Num(25))
         THEN Added(1, <<"Moderate P/E ratio">>)
    ELSE Added(0, << >>)

YieldRuleWithoutReason(div_yield) ==
    IF ~IsNumber(div_yield) THEN TypeError
    ELSE IF RGt(div_yield, Frac(5, 100)) THEN Added(2, <<"High dividend yield">>)
    ELSE IF RLe(Frac(2, 100), div_yield) /\ RLe(div_yield, Frac(5, 100))
         THEN Added(1, << >>)
    ELSE Added(0, << >>)

\* `if div_yield > 0.05: ... elif 0.02 <= div_yield <= 0.05: ...`
YieldRule(div_yield) ==
    IF ~IsNumber(div_yield) THEN TypeError
    ELSE IF RGt(div_yield, Frac(5, 100)) THEN Added(2, <<"High dividend yield">>)
    ELSE IF RLe(Frac(2, 100), div_yield) /\ RLe(div_yield, Frac(5, 100))
         THEN Added(1, <<"Moderate dividend yield">>)
    ELSE Added(0, << >>)

ReturnRuleOnMagnitude(return_percentage) ==
    IF ~IsNumber(return_percentage) THEN TypeError
    ELSE IF RGt(return_percentage, Num(20)) \/ RLt(return_percentage, Num(-20))
         THEN Added(2, <<"Strong forecasted returns">>)
    ELSE IF RLe(Num(10), return_percentage) /\ RLe(return_percentage, Num(20))
         THEN Added(1, <<"Moderate forecasted returns">>)
    ELSE Added(0, << >>)

\* `if forecast_return_percentage > 20: ... elif 10 <= ... <= 20: ...`
ReturnRule(return_percentage) ==
    IF ~IsNumber(return_percentage) THEN TypeError
    ELSE IF RGt(return_percentage, Num(20)) THEN Added(2, <<"Strong forecasted returns">>)
    ELSE IF RLe(Num(10), return_percentage) /\ RLe(return_percentage, Num(20))
         THEN Added(1, <<"Moderate forecasted returns">>)
    ELSE Added(0, << >>)

LabelWithoutWatch(score) ==
    IF score >= 4 THEN "Strong Buy"
    ELSE IF score >= 2 THEN "Buy"
    ELSE IF score >= 1 THEN "Hold"
    ELSE "Sell"

\* The label of a score.
Label(score) ==
    IF score >= 4 THEN "Strong Buy"
    ELSE IF score >= 2 THEN "Buy"
    ELSE IF score >= 1 THEN "Hold"
    ELSE "Watch"

\* The try block: the score, label and reasons it arrives at, or the exception
\* raised on the way.  stock_info is a dict (a function of its keys) or None,
\* which has no `get`.
RecommendationBody(info, return_percentage) ==
    IF info = None THEN AttributeError
    ELSE LET pe == PeRule(Get(info, "trailingPE", Num(0)))
             dy == YieldRule(Get(info, "dividendYield", Num(0)))
             rr == ReturnRule(return_percentage)
         IN  IF pe.k # "ok" THEN pe
             ELSE IF dy.k # "ok" THEN dy
             ELSE IF rr.k # "ok" THEN rr
             ELSE [k |-> "ok", score |-> pe.score + dy.score + rr.score,
                   label |-> Label(pe.score + dy.score + rr.score),
                   reasons |-> pe.reasons \o dy.reasons \o rr.reasons]

\* What the call gives its caller: a returned pair, or an exception.
Returned(label, reasons) == [k |-> "returned", label |-> label, reasons |-> reasons]
Raised(exception) == [k |-> "raised", exception |-> exception.k]

Fallback == "Unable to generate recommendation"

RecommendationUnguarded(info, return_percentage) ==
    LET body == RecommendationBody(info, return_percentage)
    IN  IF body.k = "ok" THEN Returned(body.label, body.reasons) ELSE Raised(body)

\* The whole function: `except Exception` turns every exception of the body
\* into the fallback pair.
generate_stock_recommendation(info, return_percentage) ==
    LET body == RecommendationBody(info, return_percentage)
    IN  IF body.k = "ok" THEN Returned(body.label, body.reasons)
        ELSE Returned(Fallback, << >>)

\* Values of a metric: around the thresholds of its rule, not a number, None
\* and a string.
PeValues ==
    {Num(p) : p \in {-3, 0, 1, 12, 15, 16, 25, 26, 40}} \cup {NaN, Inf(1), None, NotAvailable}
YieldValues ==
    {Frac(y, 100) : y \in {-1, 0, 1, 2, 3, 5, 6}} \cup {Frac(51, 1000), NaN, Inf(1), None,
                                                        NotAvailable}
ReturnValues ==
    {Num(r) : r \in {-5, 0, 9, 10, 15, 20, 21, 25}} \cup {Frac(201, 10), NaN, Inf(-1), None}

\* The fundamentals: None, or a dict with any of the two keys.
Fundamentals ==
    {None, << >>}
    \cup {[key \in {"trailingPE"} |-> pe] : pe \in PeValues}
    \cup {[key \in {"dividendYield"} |-> dy] : dy \in YieldValues}
    \cup {[key \in {"trailingPE", "dividendYield"} |->
              IF key = "trailingPE" THEN pe ELSE dy] : pe \in PeValues, dy \in YieldValues}

InitRecommendation ==
    /\ pc = "args"
    /\ stock_info \in Fundamentals
    /\ forecast_return_percentage \in ReturnValues
    /\ recommendation = None
    /\ forecast_data = None /\ monthly_investment = 0
    /\ portfolio = << >> /\ returns = None
    /\ Idle
    /\ NoMlForecast /\ NoProvider /\ NoMetrics /\ NoPage /\ NoMood

\* generate_stock_recommendation(stock_info, forecast_return_percentage)
CallRecommendation ==
    /\ pc = "args"
    /\ pc' = "generate_stock_recommendation"
    /\ recommendation' = generate_stock_recommendation(stock_info, forecast_return_percentage)
    /\ UNCHANGED <<stock_data, months_ahead, coef, predictions, unpacked, forecast_data,
                   monthly_investment, portfolio, returns, confidence_level, bands,
                   stock_info, forecast_return_percentage, boundaryVars, laterVars>>

NextRecommendation == CallRecommendation

SpecRecommendation == InitRecommendation /\ [][NextRecommendation]_vars

-----------------------------------------------------------------------------
(* The projected return handed on to generate_stock_recommendation *)

\* Fundamentals that earn 0 to 4 points, and None.
AdviceFundamentals ==
    {None, << >>}
    \cup {[trailingPE |-> Num(pe), dividendYield |-> Frac(dy, 100)] :
             pe \in {12, 20, 40}, dy \in {0, 3, 6}}

InitAdvice == InitReturns

\* generate_stock_recommendation(stock_info, return_percentage), the return being
\* the third number calculate_forecast_returns gave.
CallRecommendationOnReturns ==
    /\ pc = "calculate_forecast_returns"
    /\ pc' = "generate_stock_recommendation"
    /\ \E info \in AdviceFundamentals :
          /\ stock_info' = info
          /\ forecast_return_percentage' = returns[3]
          /\ recommendation' = generate_stock_recommendation(info, returns[3])
    /\ UNCHANGED <<stock_data, months_ahead, coef, predictions, unpacked, forecast_data,
                   monthly_investment, portfolio, returns, confidence_level, bands,
                   boundaryVars, laterVars>>

NextAdvice == CallForecastReturns \/ CallRecommendationOnReturns

SpecAdvice == InitAdvice /\ [][NextAdvice]_vars

-----------------------------------------------------------------------------
(* The functions called with arbitrary arguments, and what they do to the      *)
(* caller's object.  An object is described by its type and, for the pandas    *)
(* types, its columns, the kind of its index and its number of rows; rows hold *)
(* positive floats, and the closes of a frame either move from every day to    *)
(* the next or are all the same.  The heap maps references to objects:         *)
(* "caller" is the object the caller passed, "df" the function's working       *)
(* frame.                                                                      *)

Scalar == [k |-> "float"]
ListOf(n) == [k |-> "list", rows |-> n]
DictOf(items) == [k |-> "dict", items |-> items, rows |-> Cardinality(DOMAIN items)]
SeriesObject(index, n) == [k |-> "Series", index |-> index, rows |-> n]
Frame(columns, index, n) ==
    [k |-> "DataFrame", columns |-> columns, index |-> index, rows |-> n,
     closes |-> "moving"]
Flat(frame) == [frame EXCEPT !.closes = "constant"]

KeyError == [k |-> "KeyError"]

\* The types with the attributes `empty` and `copy` of pandas, those with a
\* length, and those with a method `get`.
IsPandas(obj) == obj.k \in {"Series", "DataFrame"}
HasLen(obj) == obj.k \in {"list", "dict", "Series", "DataFrame"}
HasGet(obj) == obj.k \in {"dict", "Series", "DataFrame"}

\* DataFrame.empty, Series.empty
IsEmpty(obj) == obj.rows = 0

\* A `return` of the default (empty or neutral) result, and of a computed one.
Default == [k |-> "returned", value |-> "default"]
Computed == [k |-> "returned", value |-> "computed"]

\* How a call leaves the heap, and how it ends.
Done(heap, result) == [heap |-> heap, outcome |-> result]

HeapOf(obj) == [ref \in {"caller"} |-> obj]

WorkingAlias(heap, ref) == [heap |-> heap, ref |-> ref]

\* df = stock_data.copy(): a new object with the contents of the one referred to.
WorkingCopy(heap, ref) ==
    [heap |-> [r \in DOMAIN heap \cup {"df"} |-> IF r = "df" THEN heap[ref] ELSE heap[r]],
     ref |-> "df"]

\* df[column] = ... for each of the columns
SetColumns(heap, ref, columns) == [heap EXCEPT ![ref].columns = @ \cup columns]

\* df.index = pd.to_datetime(df.index): integers are read as timestamps.
SetIndex(heap, ref, index) == [heap EXCEPT ![ref].index = index]

\* df['Days'] = range(len(df)) on the copy of a Series (line 16): pandas adds
\* an entry under the label 'Days', or raises, depending on its version.
SetLabel(heap, ref, enlarges) ==
    IF enlarges THEN [heap EXCEPT ![ref].rows = @ + 1, ![ref].index = "labels"] ELSE heap

\* create_forecast(stock_data, months_ahead).  The attribute `empty` is read
\* before the try block; inside it the index must hold dates (line 19), 'Close'
\* must be a column (line 24), the rolling columns must have values to backfill
\* from (line 42) and the horizon must be a positive number (lines 48, 66).  A
\* Series gets no further than line 19: its index has no `month` once it holds
\* the label 'Days', and line 16 may have raised before.
CreateForecastOn(heap, months, enlarges) ==
    LET obj == heap["caller"]
    IN  IF obj = None THEN Done(heap, Default)
        ELSE IF ~IsPandas(obj) THEN Done(heap, Raised(AttributeError))
        ELSE IF IsEmpty(obj) THEN Done(heap, Default)
        ELSE LET w  == WorkingCopy(heap, "caller")
                 h1 == SetColumns(w.heap, w.ref, {"Days"})
                 h2 == SetColumns(h1, w.ref, {"Month", "Year", "DayOfWeek"})
                 h3 == SetColumns(h2, w.ref, {"MA50", "MA200", "Volatility"})
             IN  IF obj.k = "Series" THEN Done(SetLabel(w.heap, w.ref, enlarges), Default)
                 ELSE IF obj.index # "dates" THEN Done(h1, Default)
                 ELSE IF "Close" \notin obj.columns THEN Done(h2, Default)
                 ELSE IF obj.rows < MA200Window \/ months = None THEN Done(h3, Default)
                 ELSE IF months.n < 1 THEN Done(h3, Default)
                 ELSE Done(h3, Computed)

\* calculate_confidence_intervals(predictions): len() is taken before the try
\* block; inside it `rolling` exists for a Series only.
ConfidenceIntervalsOn(heap) ==
    LET obj == heap["caller"]
    IN  IF obj = None THEN Done(heap, Default)
        ELSE IF ~HasLen(obj) THEN Done(heap, Raised(TypeError))
        ELSE IF obj.rows = 0 THEN Done(heap, Default)
        ELSE IF obj.k # "Series" THEN Done(heap, Default)
        ELSE Done(heap, Computed)

\* calculate_portfolio_value(stock_data): `empty` is read before the try block;
\* inside it the copy gets a date index (line 22) and its 'Close' is read (line 23).
PortfolioValueOn(heap) ==
    LET obj == heap["caller"]
    IN  IF obj = None THEN Done(heap, Default)
        ELSE IF ~IsPandas(obj) THEN Done(heap, Raised(AttributeError))
        ELSE IF IsEmpty(obj) THEN Done(heap, Default)
        ELSE LET w  == WorkingCopy(heap, "caller")
                 h1 == SetIndex(w.heap, w.ref, "dates")
             IN  IF obj.k = "Series" THEN Done(h1, Default)
                 ELSE IF "Close" \notin obj.columns THEN Done(h1, Default)
                 ELSE Done(h1, Computed)

\* calculate_forecast_returns(forecast_data): len() is taken before the try
\* block; inside it a new frame {'Close': forecast_data} goes to
\* calculate_portfolio_value, which has no period for the keys of a dict.
ForecastReturnsOn(heap) ==
    LET obj == heap["caller"]
    IN  IF obj = None THEN Done(heap, Default)
        ELSE IF ~HasLen(obj) THEN Done(heap, Raised(TypeError))
        ELSE IF obj.rows = 0 THEN Done(heap, Default)
        ELSE IF obj.k \notin {"list", "Series"} THEN Done(heap, Default)
        ELSE Done(heap, Computed)

LargestFeatureWindow == 50     \* prepare_features: the longest rolling window

\* The rows prepare_features keeps of a frame of n rows: dropna() (line 49)
\* removes every row in which a column has no value.  The rolling columns have
\* none in the first 49 rows; where the closes do not move, gain and loss are
\* both 0 and the Bollinger bands coincide, so that RSI and Price_Position are
\* 0 / 0 in every row.
FeatureRows(n, closes) ==
    IF closes = "constant" \/ n < LargestFeatureWindow THEN 0
    ELSE n - LargestFeatureWindow + 1

\* df = df.dropna() (line 49): a new frame of the rows that have a value in
\* every column.
DropNaRows(heap, ref) ==
    [heap EXCEPT ![ref].rows = FeatureRows(heap[ref].rows, heap[ref].closes)]

FeatureColumns ==
    {"Returns", "Volume_Change", "MA_5", "MA_10", "MA_20", "MA_50", "Volume_MA_5",
     "Volume_MA_10", "Volume_MA_20", "Volume_MA_50", "Volatility", "RSI", "MACD",
     "Signal_Line", "BB_Middle", "BB_Upper", "BB_Lower", "Price_Position"}

\* prepare_features(data): no try block.  None and a float have no `copy`; a
\* list, a dict and a Series have no 'Close' to read at line 16; a frame without
\* 'Volume' fails at line 17, after 'Returns' was set.
PrepareFeaturesOn(heap) ==
    LET obj == heap["caller"]
    IN  IF obj = None \/ obj = Scalar THEN Done(heap, Raised(AttributeError))
        ELSE LET w == WorkingCopy(heap, "caller")
             IN  IF obj.k = "list" THEN Done(w.heap, Raised(TypeError))
                 ELSE IF obj.k \in {"dict", "Series"} THEN Done(w.heap, Raised(KeyError))
                 ELSE IF "Close" \notin obj.columns THEN Done(w.heap, Raised(KeyError))
                 ELSE IF "Volume" \notin obj.columns
                      THEN Done(SetColumns(w.heap, w.ref, {"Returns"}), Raised(KeyError))
                 ELSE Done(DropNaRows(SetColumns(w.heap, w.ref, FeatureColumns), w.ref),
                           Computed)

SeqLength == 30                \* create_sequences(data, seq_length=30)

\* len(X_seq): create_sequences makes one window for each i in
\* range(len(data) - seq_length).
SequencesOf(rows) == IF rows > SeqLength THEN rows - SeqLength ELSE 0

\* split_idx = int(len(X_seq) * 0.8)
SplitIdx(sequences) == (sequences * 4) \div 5

\* train_predict_rf up to the fit: prepare_features may raise, and
\* X_train.reshape(X_train.shape[0], -1) (line 91) raises ValueError when the
\* training part holds no window.
FitRaises(features) ==
    \/ features.outcome.k = "raised"
    \/ SplitIdx(SequencesOf(features.heap["df"].rows)) = 0

\* generate_ml_forecast(stock_data, months_ahead): months_ahead * 21 is computed
\* before the try block; inside it train_predict_rf starts with
\* prepare_features(stock_data), and with no step made intervals[:, 0] raises
\* IndexError.
GenerateMlForecastOn(heap, months) ==
    IF months = None THEN Done(heap, Raised(TypeError))
    ELSE LET features == PrepareFeaturesOn(heap)
         IN  IF FitRaises(features) \/ months.n < 1 THEN Done(features.heap, Default)
             ELSE Done(features.heap, Computed)

\* stock_info as generate_stock_recommendation reads it: the items of a dict,
\* nothing under the two keys for a pandas object, and no `get` at all otherwise.
InfoOf(obj) == IF obj.k = "dict" THEN obj.items ELSE IF HasGet(obj) THEN << >> ELSE None

\* The objects a caller may pass.
Objects ==
    {None, Scalar, ListOf(0), ListOf(3), DictOf(<< >>),
     DictOf([trailingPE |-> Num(12), dividendYield |-> Frac(6, 100)])}
    \cup {SeriesObject(index, n) : index \in {"dates", "ints"}, n \in {0, 90}}
    \cup {Frame(columns, index, n) :
             columns \in {{"Close", "Volume"}, {"Close"}, {"Volume"}},
             index \in {"dates", "ints"}, n \in {0, 80, 100, 250}}
    \cup {Flat(Frame({"Close", "Volume"}, "dates", n)) : n \in {100, 250}}

\* A horizon, or a forecast return, and None in its place.
SecondArguments == {Num(3), None}

InitBoundary ==
    /\ pc = "args"
    /\ argument \in Objects
    /\ outcome = None
    /\ stock_data = None /\ months_ahead = 0 /\ coef = None
    /\ predictions = None /\ unpacked = None
    /\ forecast_data = None /\ monthly_investment = 0
    /\ portfolio = << >> /\ returns = None
    /\ confidence_level = 0 /\ bands = None
    /\ NoAdvice
    /\ NoMlForecast /\ NoProvider /\ NoMetrics /\ NoPage /\ NoMood

\* create_forecast(argument, months)
BoundaryCreateForecast ==
    /\ pc = "args"
    /\ pc' = "create_forecast"
    /\ \E months \in SecondArguments, enlarges \in BOOLEAN :
          LET run == CreateForecastOn(HeapOf(argument), months, enlarges)
          IN  /\ months_ahead' = months
              /\ argument' = run.heap["caller"]
              /\ outcome' = run.outcome
    /\ UNCHANGED <<stock_data, coef, predictions, unpacked, forecast_data,
                   monthly_investment, portfolio, returns, confidence_level, bands,
                   adviceVars, laterVars>>

\* calculate_confidence_intervals(argument)
BoundaryConfidenceIntervals ==
    /\ pc = "args" /\ argument.k # "DataFrame"
    /\ pc' = "calculate_confidence_intervals"
    /\ LET run == ConfidenceIntervalsOn(HeapOf(argument))
       IN  argument' = run.heap["caller"] /\ outcome' = run.outcome
    /\ UNCHANGED <<stock_data, months_ahead, coef, predictions, unpacked, forecast_data,
                   monthly_investment, portfolio, returns, confidence_level, bands,
                   adviceVars, laterVars>>

\* calculate_forecast_returns(argument)
BoundaryForecastReturns ==
    /\ pc = "args" /\ argument.k # "DataFrame"
    /\ pc' = "calculate_forecast_returns"
    /\ LET run == ForecastReturnsOn(HeapOf(argument))
       IN  argument' = run.heap["caller"] /\ outcome' = run.outcome
    /\ UNCHANGED <<stock_data, months_ahead, coef, predictions, unpacked, forecast_data,
                   monthly_investment, portfolio, returns, confidence_level, bands,
                   adviceVars, laterVars>>

\* generate_stock_recommendation(argument, forecast_return)
BoundaryRecommendation ==
    /\ pc = "args"
    /\ pc' = "generate_stock_recommendation"
    /\ \E forecast_return \in SecondArguments :
          /\ forecast_return_percentage' = forecast_return
          /\ outcome' = generate_stock_recommendation(InfoOf(argument), forecast_return)
    /\ UNCHANGED <<stock_data, months_ahead, coef, predictions, unpacked, forecast_data,
                   monthly_investment, portfolio, returns, confidence_level, bands,
                   stock_info, recommendation, argument, laterVars>>

\* generate_ml_forecast(argument, months)
BoundaryMlForecast ==
    /\ pc = "args"
    /\ pc' = "generate_ml_forecast"
    /\ \E months \in SecondArguments :
          LET run == GenerateMlForecastOn(HeapOf(argument), months)
          IN  /\ months_ahead' = months
              /\ argument' = run.heap["caller"]
              /\ outcome' = run.outcome
    /\ UNCHANGED <<stock_data, coef, predictions, unpacked, forecast_data,
                   monthly_investment, portfolio, returns, confidence_level, bands,
                   adviceVars, laterVars>>

\* calculate_portfolio_value(argument)
BoundaryPortfolioValue ==
    /\ pc = "args"
    /\ pc' = "calculate_portfolio_value"
    /\ LET run == PortfolioValueOn(HeapOf(argument))
       IN  argument' = run.heap["caller"] /\ outcome' = run.outcome
    /\ UNCHANGED <<stock_data, months_ahead, coef, predictions, unpacked, forecast_data,
                   monthly_investment, portfolio, returns, confidence_level, bands,
                   adviceVars, laterVars>>

\* prepare_features(argument)
BoundaryPrepareFeatures ==
    /\ pc = "args"
    /\ pc' = "prepare_features"
    /\ LET run == PrepareFeaturesOn(HeapOf(argument))
       IN  argument' = run.heap["caller"] /\ outcome' = run.outcome
    /\ UNCHANGED <<stock_data, months_ahead, coef, predictions, unpacked, forecast_data,
                   monthly_investment, portfolio, returns, confidence_level, bands,
                   adviceVars, laterVars>>

NextBoundary ==
    \/ BoundaryCreateForecast
    \/ BoundaryConfidenceIntervals
    \/ BoundaryForecastReturns
    \/ BoundaryRecommendation
    \/ BoundaryMlForecast
    \/ BoundaryPortfolioValue
    \/ BoundaryPrepareFeatures

SpecBoundary == InitBoundary /\ [][NextBoundary]_vars

-----------------------------------------------------------------------------
(* utils/ml_models.py: train_predict_rf and generate_ml_forecast *)

NumTrees == 100                \* RandomForestRegressor(n_estimators=100)
TradingDaysPerMonth == 21      \* horizon = months_ahead * 21
LowerPercentile == 5
UpperPercentile == 95

MaxMlMonths == 1               \* largest horizon asked of the tree ensemble, in months

\* X_seq[-1]: the last window of the history, its rows numbered 1..SeqLength.
LastSequence == [i \in 1..SeqLength |-> i]

\* np.roll(current_sequence, -1, axis=0) followed by
\* current_sequence[-1] = X_seq[-1][-1]
Rolled(window) ==
    [i \in 1..SeqLength |-> IF i < SeqLength THEN window[i + 1] ELSE LastSequence[SeqLength]]

\* What the trees predict for a window, in the order of model.estimators_.
\* The fit is sklearn's: which rows a tree is grown from is drawn at random, and a tree
\* predicts the mean close of the training rows in one of its leaves, a value
\* between the lowest and the highest close it was trained on.  Its outcome is
\* taken as given: on the last window of the history forest.high trees predict
\* forest.top and the others forest.base; on any other window all predict
\* forest.base.
TreePredictions(trees, window) ==
    [i \in 1..NumTrees |->
        IF window = LastSequence /\ i > NumTrees - trees.high THEN trees.top ELSE trees.base]

\* np.mean of integer values
Mean(xs) == Frac(SumOver(xs, 1, Len(xs)), Len(xs))

\* np.percentile(xs, q) of integer values xs: the values are sorted, and the
\* result is the linear interpolation between the two sorted values around the
\* position q / 100 * (n - 1), counted from 0.
Percentile(xs, q) ==
    LET sorted   == SortSeq(xs, LAMBDA a, b : a < b)
        position == q * (Len(xs) - 1)
        below    == position \div 100 + 1
        above    == IF below < Len(xs) THEN below + 1 ELSE below
    IN  RAdd(Num(sorted[below]),
             RMul(Frac(position % 100, 100), Num(sorted[above] - sorted[below])))

\* One pass of the loop `for _ in range(horizon)`: the prediction and its
\* interval, and the window of the next pass.
StepPrediction(trees, window) ==
    LET tree_predictions == TreePredictions(trees, window)
    IN  [mean  |-> Mean(tree_predictions),
         lower |-> Percentile(tree_predictions, LowerPercentile),
         upper |-> Percentile(tree_predictions, UpperPercentile)]

\* new_features is prepare_features of a frame of one row; the window is rolled
\* when it is not empty.
NextSequence(window) == IF FeatureRows(1, "constant") # 0 THEN Rolled(window) ELSE window

\* The three Series generate_ml_forecast returns (their values; the index of
\* business days is left out), empty ones when the body raised: with no step
\* made, intervals[:, 0] raises IndexError.
MlForecastOf(steps) ==
    IF Len(steps) = 0 THEN [forecast |-> << >>, lower_bound |-> << >>, upper_bound |-> << >>]
    ELSE [forecast    |-> [i \in 1..Len(steps) |-> steps[i].mean],
          lower_bound |-> [i \in 1..Len(steps) |-> steps[i].lower],
          upper_bound |-> [i \in 1..Len(steps) |-> steps[i].upper]]

\* Closes among the training rows, in rands.
TrainingCloses == {10, 110}

\* Fitted ensembles: all trees agree, or some predict a higher close.
Forests ==
    {[base |-> b, top |-> t, high |-> h] :
        b \in TrainingCloses, t \in TrainingCloses, h \in 0..NumTrees}

\* The histories generate_ml_forecast is called with: none, frames of rows
\* around the fewest the fit needs, and one whose closes do not move.
MlHistories ==
    {None}
    \cup {Frame({"Close", "Volume"}, "dates", n) : n \in {80, 81, 100}}
    \cup {Flat(Frame({"Close", "Volume"}, "dates", 100))}

InitTrees ==
    /\ pc = "args"
    /\ months_ahead \in 0..MaxMlMonths
    /\ forest = None /\ horizon = 0 /\ current_sequence = << >> /\ ml_predictions = << >>
    /\ ml_forecast = None
    /\ stock_data \in MlHistories /\ coef = None /\ predictions = None /\ unpacked = None
    /\ forecast_data = None /\ monthly_investment = 0
    /\ portfolio = << >> /\ returns = None
    /\ confidence_level = 0 /\ bands = None
    /\ NoAdvice /\ NoBoundaryCall
    /\ NoProvider /\ NoMetrics /\ NoPage /\ NoMood

\* generate_ml_forecast up to the loop of train_predict_rf: the horizon, the
\* features and windows of the history, the fit and the first window.  When
\* prepare_features or the reshape of the training windows raises, the except
\* clause returns three empty Series.
TrainRf ==
    /\ pc = "args"
    /\ horizon' = months_ahead * TradingDaysPerMonth
    /\ IF FitRaises(PrepareFeaturesOn(HeapOf(stock_data)))
       THEN /\ pc' = "generate_ml_forecast"
            /\ ml_forecast' = MlForecastOf(<< >>)
            /\ UNCHANGED <<forest, current_sequence>>
       ELSE /\ pc' = "train_predict_rf"
            /\ forest' \in Forests
            /\ current_sequence' = LastSequence
            /\ UNCHANGED ml_forecast
    /\ UNCHANGED <<stock_data, months_ahead, coef, predictions, unpacked, forecast_data,
                   monthly_investment, portfolio, returns, confidence_level, bands,
                   adviceVars, boundaryVars, ml_predictions,
                   providerVars, metricsVars, pageVars, moodVars>>

\* One pass of the loop.
PredictStep ==
    /\ pc = "train_predict_rf"
    /\ Len(ml_predictions) < horizon
    /\ ml_predictions' = Append(ml_predictions, StepPrediction(forest, current_sequence))
    /\ current_sequence' = NextSequence(current_sequence)
    /\ UNCHANGED <<pc, stock_data, months_ahead, coef, predictions, unpacked, forecast_data,
                   monthly_investment, portfolio, returns, confidence_level, bands,
                   adviceVars, boundaryVars, forest, horizon, ml_forecast,
                   providerVars, metricsVars, pageVars, moodVars>>

\* The loop is over: generate_ml_forecast returns.
ReturnMlForecast ==
    /\ pc = "train_predict_rf"
    /\ Len(ml_predictions) = horizon
    /\ pc' = "generate_ml_forecast"
    /\ ml_forecast' = MlForecastOf(ml_predictions)
    /\ UNCHANGED <<stock_data, months_ahead, coef, predictions, unpacked, forecast_data,
                   monthly_investment, portfolio, returns, confidence_level, bands,
                   adviceVars, boundaryVars, forest, horizon, current_sequence,
                   ml_predictions, providerVars, metricsVars, pageVars, moodVars>>

NextTrees == TrainRf \/ PredictStep \/ ReturnMlForecast

SpecTrees == InitTrees /\ [][NextTrees]_vars

-----------------------------------------------------------------------------
(* utils/stock_data.py: get_stock_data and get_financial_metrics *)

CentsPerRand == 100

MaxCalls == 3                  \* calls made to the data functions for one symbol

\* A string is written as its characters where the program looks into it.
RECURSIVE Joined(_)
Joined(letters) == IF Len(letters) = 0 THEN "" ELSE letters[1] \o Joined(Tail(letters))

\* The stocks the program offers, in the order of the dictionary: 'NPN.JO', ...
JO(a, b, c) == <<a, b, c, ".", "J", "O">>
Listed(letters, sector) ==
    [symbol |-> Joined(letters), letters |-> letters, sector |-> sector]
JSE_TOP_50 ==
    <<Listed(JO("N", "P", "N"), "Technology"),
      Listed(JO("P", "R", "X"), "Technology"),
      Listed(JO("M", "C", "G"), "Technology"),
      Listed(JO("M", "T", "N"), "Telecommunications"),
      Listed(JO("V", "O", "D"), "Telecommunications"),
      Listed(JO("T", "K", "G"), "Telecommunications"),
      Listed(JO("F", "S", "R"), "Banking"),
      Listed(JO("S", "B", "K"), "Banking"),
      Listed(JO("A", "B", "G"), "Banking"),
      Listed(JO("C", "P", "I"), "Banking"),
      Listed(JO("N", "E", "D"), "Banking"),
      Listed(JO("S", "L", "M"), "Insurance"),
      Listed(JO("D", "S", "Y"), "Insurance"),
      Listed(JO("O", "M", "U"), "Insurance"),
      Listed(JO("M", "O", "M"), "Insurance"),
      Listed(JO("A", "G", "L"), "Mining"),
      Listed(JO("G", "F", "I"), "Mining"),
      Listed(JO("A", "M", "S"), "Mining"),
      Listed(JO("A", "N", "G"), "Mining"),
      Listed(JO("I", "M", "P"), "Mining")>>

\* The symbols the data functions are called with, character by character: a
\* listed one, one of another exchange, a '.JO' symbol that is not listed, one
\* that ends in 'JO' without the dot and the bare suffix.
Symbols ==
    {JO("N", "P", "N"), <<"A", "A", "P", "L">>, JO("S", "O", "L"), <<"J", "O">>,
     <<".", "J", "O">>}

\* symbol.endswith('.JO')
EndsWithJO(ticker) ==
    /\ Len(ticker) >= 3
    /\ SubSeq(ticker, Len(ticker) - 2, Len(ticker)) = <<".", "J", "O">>

PriceColumns == {"Open", "High", "Low", "Close"}
InfoPriceKeys == {"fiftyTwoWeekHigh", "fiftyTwoWeekLow"}

\* hist[col] = hist[col] / 100 for the price columns the frame has
HistInRands(hist) ==
    [i \in DOMAIN hist |->
        [col \in DOMAIN hist[i] |->
            IF col \in PriceColumns THEN RDiv(hist[i][col], Num(CentsPerRand))
            ELSE hist[i][col]]]

\* info[key] = info[key] / 100 for the two keys, when the dictionary has them
InfoInRands(info) ==
    [key \in DOMAIN info |->
        IF key \in InfoPriceKeys THEN RDiv(info[key], Num(CentsPerRand)) ELSE info[key]]

\* The frame and the dictionary as the functions leave them for this symbol.
HistFor(ticker, hist) == IF EndsWithJO(ticker) THEN HistInRands(hist) ELSE hist
InfoFor(ticker, info) == IF EndsWithJO(ticker) THEN InfoInRands(info) ELSE info

\* A returned price frame, its rows in date order.
PriceFrame(bars) == [k |-> "DataFrame", bars |-> bars]

\* download_and_save_stock_data's return value for the frame the provider gave
\* (the CSV file it writes is left out).
Downloaded(ticker, hist) ==
    IF Len(hist) = 0 THEN None ELSE PriceFrame(HistFor(ticker, hist))

\* The dividend entries of get_financial_metrics, from stock.dividends in
\* ascending date order; the change is computed before the conversion.
LatestDividend(dividends) ==
    IF Len(dividends) = 0 THEN 0 ELSE dividends[Len(dividends)]
PrevDividend(dividends) ==
    IF Len(dividends) > 1 THEN dividends[Len(dividends) - 1] ELSE LatestDividend(dividends)
DividendChange(dividends) ==
    IF PrevDividend(dividends) > 0
    THEN RMul(Frac(LatestDividend(dividends) - PrevDividend(dividends),
                   PrevDividend(dividends)), Num(100))
    ELSE Num(0)

\* The metrics dictionary built from the (converted) info dictionary; the keys
\* read with info.get(key, 'N/A') that the rest of the program does not use
\* (Forward P/E, PEG Ratio, Price/Book, Beta, Debt/Equity, ROE, EPS) and the
\* date of the latest dividend are left out.
Metrics(ticker, info, dividends) ==
    [key \in {"Market Cap", "P/E Ratio", "Dividend Yield", "52 Week High", "52 Week Low",
              "Latest Dividend", "Dividend Change"} |->
        CASE key = "Market Cap"      -> Get(info, "marketCap", NotAvailable)
          [] key = "P/E Ratio"       -> Get(info, "trailingPE", NotAvailable)
          [] key = "Dividend Yield"  -> Get(info, "dividendYield", NotAvailable)
          [] key = "52 Week High"    -> Get(info, "fiftyTwoWeekHigh", NotAvailable)
          [] key = "52 Week Low"     -> Get(info, "fiftyTwoWeekLow", NotAvailable)
          [] key = "Latest Dividend" ->
                 IF EndsWithJO(ticker) THEN Frac(LatestDividend(dividends), CentsPerRand)
                 ELSE Num(LatestDividend(dividends))
          [] key = "Dividend Change" -> DividendChange(dividends)]

\* What the provider holds for a symbol: a price history of 0..2 rows, the
\* info dictionary and the dividends, prices in cents.
Bar(close) ==
    [col \in PriceColumns \cup {"Volume"} |->
        CASE col = "Open"   -> Num(close - 100)
          [] col = "High"   -> Num(close + 200)
          [] col = "Low"    -> Num(close - 200)
          [] col = "Close"  -> Num(close)
          [] col = "Volume" -> Num(5000)]

ProviderHistories == {<< >>, <<Bar(10300)>>, <<Bar(10000), Bar(10300)>>}

ProviderInfos ==
    {[key \in {"trailingPE"} |-> Frac(31, 2)],
     [key \in {"trailingPE", "fiftyTwoWeekHigh"} |->
         IF key = "trailingPE" THEN Frac(31, 2) ELSE Num(11000)],
     [key \in {"trailingPE", "fiftyTwoWeekHigh", "fiftyTwoWeekLow"} |->
         CASE key = "trailingPE"       -> Frac(31, 2)
           [] key = "fiftyTwoWeekHigh" -> Num(11000)
           [] key = "fiftyTwoWeekLow"  -> Num(9000)]}

ProviderDividends == {<< >>, <<50>>, <<40, 50>>}

\* yf.Ticker(symbol): `quote` is what the exchange reports; `provider` holds the
\* objects its history() and info hand out next.  A provider with same_objects
\* hands out the same frame and dictionary on every call (as the mock of
\* test_get_stock_data does), another one builds new ones from the quote.
InitProvider ==
    /\ pc = "args"
    /\ symbol \in Symbols
    /\ quote \in [hist : ProviderHistories, info : ProviderInfos, dividends : ProviderDividends]
    /\ provider \in [same_objects : BOOLEAN, hist : {quote.hist}, info : {quote.info},
                     calls : {0}]
    /\ fetched = None
    /\ stock_data = None /\ months_ahead = 0 /\ coef = None /\ predictions = None
    /\ unpacked = None /\ forecast_data = None /\ monthly_investment = 0
    /\ portfolio = << >> /\ returns = None
    /\ confidence_level = 0 /\ bands = None
    /\ NoAdvice /\ NoBoundaryCall
    /\ NoMlForecast /\ NoMetrics /\ NoPage /\ NoMood

\* The provider after a call that wrote to the objects it was handed.
ProviderAfter(hist, info) ==
    [same_objects |-> provider.same_objects,
     hist  |-> IF provider.same_objects THEN hist ELSE quote.hist,
     info  |-> IF provider.same_objects THEN info ELSE quote.info,
     calls |-> provider.calls + 1]

\* get_stock_data(symbol).  download_and_save_stock_data has a try block of its
\* own: it returns None when history() raises, when the history is empty, and
\* when saving the file raises, which happens after the frame was converted in
\* place.  When stock.info raises after that, the result is (None, None).
CallGetStockData ==
    /\ provider.calls < MaxCalls
    /\ pc' = "get_stock_data"
    /\ \E history \in {"returned", "raises", "not saved"}, info_raises \in BOOLEAN :
          LET hist == IF history = "returned" THEN Downloaded(symbol, provider.hist)
                      ELSE None
              frame == IF history = "raises" \/ Len(provider.hist) = 0 THEN provider.hist
                       ELSE HistFor(symbol, provider.hist)
          IN  IF info_raises
              THEN /\ fetched' = [call |-> "get_stock_data", hist |-> None, info |-> None]
                   /\ provider' = ProviderAfter(frame, provider.info)
              ELSE /\ fetched' = [call |-> "get_stock_data", hist |-> hist,
                                  info |-> InfoFor(symbol, provider.info)]
                   /\ provider' = ProviderAfter(frame, InfoFor(symbol, provider.info))
    /\ UNCHANGED <<stock_data, months_ahead, coef, predictions, unpacked, forecast_data,
                   monthly_investment, portfolio, returns, confidence_level, bands,
                   adviceVars, boundaryVars, mlVars, symbol, quote,
                   metricsVars, pageVars, moodVars>>

\* get_financial_metrics(symbol); {} when the provider is down.
CallGetFinancialMetrics ==
    /\ provider.calls < MaxCalls
    /\ pc' = "get_financial_metrics"
    /\ \E up \in BOOLEAN :
          IF up
          THEN /\ fetched' = [call |-> "get_financial_metrics",
                              metrics |-> Metrics(symbol, InfoFor(symbol, provider.info),
                                                  quote.dividends)]
               /\ provider' = ProviderAfter(provider.hist, InfoFor(symbol, provider.info))
          ELSE /\ fetched' = [call |-> "get_financial_metrics", metrics |-> << >>]
               /\ provider' = ProviderAfter(provider.hist, provider.info)
    /\ UNCHANGED <<stock_data, months_ahead, coef, predictions, unpacked, forecast_data,
                   monthly_investment, portfolio, returns, confidence_level, bands,
                   adviceVars, boundaryVars, mlVars, symbol, quote,
                   metricsVars, pageVars, moodVars>>

NextProvider == CallGetStockData \/ CallGetFinancialMetrics

SpecProvider == InitProvider /\ [][NextProvider]_vars

-----------------------------------------------------------------------------
(* utils/stock_data.py: calculate_portfolio_metrics *)

MaxStocks == 2                 \* longest list of selected stocks

\* The info dictionary of a stock with the given values; a key whose value is
\* given as NotAvailable is missing from the dictionary.
StockInfo(cap, pe, dy) ==
    LET value(key) == CASE key = "marketCap"     -> cap
                        [] key = "trailingPE"    -> pe
                        [] key = "dividendYield" -> dy
    IN  [key \in {k \in {"marketCap", "trailingPE", "dividendYield"} :
                       value(k) # NotAvailable} |-> value(key)]

CapValues == {NotAvailable, Num(0), Num(100), Num(300)}
StockPeValues == {NotAvailable, Num(10), Num(20)}
StockYieldValues == {NotAvailable, Frac(1, 50)}

\* What the provider reports for one selected stock; a provider that is down
\* for it makes get_financial_metrics return {}.
StockReports ==
    {[up |-> TRUE, info |-> StockInfo(cap, pe, dy)] :
        cap \in CapValues, pe \in StockPeValues, dy \in StockYieldValues}
    \cup {[up |-> FALSE, info |-> << >>]}

\* get_financial_metrics(symbol) for the i-th selected stock, a stock without
\* dividends
get_financial_metrics(ticker, report) ==
    IF report.up THEN Metrics(ticker, InfoFor(ticker, report.info), << >>) ELSE << >>

\* One pass of the loop over selected_stocks: the running sums after it.
AddStock(sums, metrics) ==
    LET market_cap == Get(metrics, "Market Cap", Num(0))
        pe_ratio   == Get(metrics, "P/E Ratio", Num(0))
        div_yield  == Get(metrics, "Dividend Yield", Num(0))
    IN  IF market_cap # NotAvailable /\ RGt(market_cap, Num(0))
        THEN [total_market_cap |-> RAdd(sums.total_market_cap, market_cap),
              total_weight     |-> RAdd(sums.total_weight, market_cap),
              weighted_pe      |->
                  IF pe_ratio # NotAvailable
                  THEN RAdd(sums.weighted_pe, RMul(pe_ratio, market_cap))
                  ELSE sums.weighted_pe,
              weighted_dividend_yield |->
                  IF div_yield # NotAvailable
                  THEN RAdd(sums.weighted_dividend_yield, RMul(div_yield, market_cap))
                  ELSE sums.weighted_dividend_yield]
        ELSE sums

\* The running sums after the first n stocks.
RECURSIVE SumsAfter(_, _)
SumsAfter(reports, n) ==
    IF n = 0
    THEN [total_market_cap |-> Num(0), total_weight |-> Num(0), weighted_pe |-> Num(0),
          weighted_dividend_yield |-> Num(0)]
    ELSE AddStock(SumsAfter(reports, n - 1),
                  get_financial_metrics(JSE_TOP_50[n].letters, reports[n]))

calculate_portfolio_metrics(reports) ==
    LET sums    == SumsAfter(reports, Len(reports))
        divided == RGt(sums.total_weight, Num(0))
    IN  [key \in {"Total Market Cap", "Weighted P/E", "Weighted Dividend Yield"} |->
            CASE key = "Total Market Cap" -> sums.total_market_cap
              [] key = "Weighted P/E" ->
                     IF divided THEN RDiv(sums.weighted_pe, sums.total_weight)
                     ELSE sums.weighted_pe
              [] key = "Weighted Dividend Yield" ->
                     IF divided THEN RDiv(sums.weighted_dividend_yield, sums.total_weight)
                     ELSE sums.weighted_dividend_yield]

\* The selected stocks are the first ones listed; holdings[i] is what the
\* provider reports for the i-th.
InitMetrics ==
    /\ pc = "args"
    /\ \E n \in 0..MaxStocks : holdings \in [1..n -> StockReports]
    /\ portfolio_metrics = None
    /\ stock_data = None /\ months_ahead = 0 /\ coef = None /\ predictions = None
    /\ unpacked = None /\ forecast_data = None /\ monthly_investment = 0
    /\ portfolio = << >> /\ returns = None
    /\ confidence_level = 0 /\ bands = None
    /\ NoAdvice /\ NoBoundaryCall
    /\ NoMlForecast /\ NoProvider /\ NoPage /\ NoMood

CallPortfolioMetrics ==
    /\ pc = "args"
    /\ pc' = "calculate_portfolio_metrics"
    /\ portfolio_metrics' = calculate_portfolio_metrics(holdings)
    /\ UNCHANGED <<stock_data, months_ahead, coef, predictions, unpacked, forecast_data,
                   monthly_investment, portfolio, returns, confidence_level, bands,
                   adviceVars, boundaryVars, mlVars, providerVars, holdings,
                   pageVars, moodVars>>

NextMetrics == CallPortfolioMetrics

SpecMetrics == InitMetrics /\ [][NextMetrics]_vars

-----------------------------------------------------------------------------
(* pages/portfolio_comparison.py: the stock selection of the page *)

StockLimit == 15

Sectors == {JSE_TOP_50[i].sector : i \in DOMAIN JSE_TOP_50}

\* list(sector_stocks.keys()): the symbols of a sector in listing order
RECURSIVE SymbolsUpTo(_, _)
SymbolsUpTo(sector, n) ==
    IF n = 0 THEN << >>
    ELSE IF JSE_TOP_50[n].sector = sector
         THEN Append(SymbolsUpTo(sector, n - 1), JSE_TOP_50[n].symbol)
         ELSE SymbolsUpTo(sector, n - 1)
SectorStocks(sector) == SymbolsUpTo(sector, Len(JSE_TOP_50))

\* list(JSE_TOP_50.keys())
AllSymbols == [i \in DOMAIN JSE_TOP_50 |-> JSE_TOP_50[i].symbol]

Reversed(list) == [i \in 1..Len(list) |-> list[Len(list) + 1 - i]]

\* The values a sector's multiselect is given: a multiselect returns the chosen
\* options in the order they were chosen.  Considered are nothing and one
\* selection of several stocks, chosen from the last listed backwards: of
\* every stock of the sector, and in Mining of every stock but the first.
SelectionChoices(sector) ==
    {<< >>, Reversed(IF sector = "Mining" THEN Tail(SectorStocks(sector))
                     ELSE SectorStocks(sector))}

\* The loop `for s in sectors` that extends selected_stocks by the selection
\* of every sector whose widget key is in the session state, over the first n
\* sectors.
RECURSIVE Collected(_, _, _)
Collected(state, order, n) ==
    IF n = 0 THEN << >>
    ELSE Collected(state, order, n - 1)
         \o (IF order[n] \in state.keys THEN state.select[order[n]] ELSE << >>)

OverLimitOffByOne(selected_stocks) == Len(selected_stocks) > StockLimit + 1

\* len(st.session_state.selected_stocks) > 15
OverLimit(selected_stocks) == Len(selected_stocks) > StockLimit

\* list(set(...)): the order in which a set of strings is iterated is fixed for
\* a process and differs between processes; every order of the five sectors
\* can come out.
SectorOrders ==
    {order \in [1..Cardinality(Sectors) -> Sectors] :
        \A i, j \in DOMAIN order : i # j => order[i] # order[j]}

\* What main.py and pages/advanced_analysis.py leave in selected_stocks: the
\* stocks of the sector chosen there, or the value of a multiselect over all
\* listed stocks (of which nothing and everything are considered).
OtherPageSelections ==
    {<< >>, AllSymbols} \cup {SectorStocks(sector) : sector \in Sectors}

\* The script's position: pc is "top", "loop" (before the pass for sectors[k]),
\* "analysis", "done", "exception" (the run ended in the loop) or "key_error"
\* (it ended in the analysis section); rendered holds the sectors whose widget
\* this run has instantiated, screen the sectors whose widget the browser
\* shows (what the last run left and what this run has rendered).
At(position, k, rendered, screen) ==
    [pc |-> position, k |-> k, rendered |-> rendered, screen |-> screen]

\* The session state of a session none of whose runs has shown the page's
\* widgets, with what another page may have put into selected_stocks.
Fresh(has_selected_stocks, selected_stocks) ==
    [has_selected_stocks |-> has_selected_stocks, selected_stocks |-> selected_stocks,
     keys |-> {}, select |-> [s \in Sectors |-> << >>]]

\* The states in which the page is opened: directly in a new session, or after
\* the main page or the advanced analysis has run in the session.
PageOpenings ==
    {Fresh(FALSE, << >>)} \cup {Fresh(TRUE, left) : left \in OtherPageSelections}

InitPage ==
    /\ pc = "page"
    /\ sectors \in SectorOrders
    /\ session_state \in PageOpenings
    /\ script = At("top", 0, {}, {})
    /\ stock_data = None /\ months_ahead = 0 /\ coef = None /\ predictions = None
    /\ unpacked = None /\ forecast_data = None /\ monthly_investment = 0
    /\ portfolio = << >> /\ returns = None
    /\ confidence_level = 0 /\ bands = None
    /\ NoAdvice /\ NoBoundaryCall
    /\ NoMlForecast /\ NoProvider /\ NoMetrics /\ NoMood

PageUnchanged ==
    UNCHANGED <<pc, stock_data, months_ahead, coef, predictions, unpacked, forecast_data,
                monthly_investment, portfolio, returns, confidence_level, bands,
                adviceVars, boundaryVars, mlVars, providerVars, metricsVars, moodVars,
                sectors>>

\* The start of a pass of `for sector in sectors`: the multiselect is
\* instantiated (its key enters the session state) and selected_stocks is
\* collected again.
PassCollected(state, order, sector) ==
    LET shown == [state EXCEPT !.keys = @ \cup {sector}]
    IN  [shown EXCEPT !.selected_stocks = Collected(shown, order, Len(order))]

\* Where a widget change finds the session state of a run under way: streamlit
\* stops the run at its next st.* call, which is the start of the next pass or,
\* in a pass over the limit, st.error after selected_stocks was collected.
Interrupted ==
    {session_state}
    \cup (IF script.pc = "loop"
             /\ OverLimit(PassCollected(session_state, sectors, sectors[script.k]).selected_stocks)
          THEN {PassCollected(session_state, sectors, sectors[script.k])}
          ELSE {})

\* The user changes the value of a multiselect the browser shows, at any time:
\* streamlit stores the widget's new value, stops the run under way and runs
\* the script again from the top.
UserChangesSelection ==
    /\ \E sector \in script.screen \cup script.rendered :
          \E selection \in SelectionChoices(sector) \ {session_state.select[sector]} :
             \E state \in Interrupted :
                session_state' = [state EXCEPT !.select[sector] = selection]
    /\ script' = At("top", 0, {}, script.screen \cup script.rendered)
    /\ PageUnchanged

\* The user goes to the main page or to the advanced analysis and comes back:
\* the values of this page's widgets are discarded with the page, and the other
\* page has assigned selected_stocks (main.py:82,98,109 and
\* advanced_analysis.py:74,82,93).
VisitOtherPage ==
    /\ \E left \in OtherPageSelections : session_state' = Fresh(TRUE, left)
    /\ script' = At("top", 0, {}, {})
    /\ PageUnchanged

\* The script up to the loop: selected_stocks is initialised when missing.
ScriptTop ==
    /\ script.pc = "top"
    /\ session_state' =
           IF session_state.has_selected_stocks THEN session_state
           ELSE [session_state EXCEPT !.has_selected_stocks = TRUE,
                                      !.selected_stocks = << >>]
    /\ script' = At("loop", 1, {}, script.screen)
    /\ PageUnchanged

\* One pass of `for sector in sectors`: the multiselect is instantiated,
\* selected_stocks is collected again, and the limit is checked.  Over the
\* limit, the assignment to the key of a widget already instantiated raises
\* StreamlitAPIException in streamlit and the run ends there, the browser
\* showing what the run had rendered; were the assignment accepted, the
\* selection of this sector would be emptied and the script run again from the
\* top.
ScriptSector ==
    /\ script.pc = "loop"
    /\ LET sector    == sectors[script.k]
           collected == PassCollected(session_state, sectors, sector)
           rendered  == script.rendered \cup {sector}
       IN  IF OverLimit(collected.selected_stocks)
           THEN \E accepted \in BOOLEAN :
                   IF accepted
                   THEN /\ session_state' = [collected EXCEPT !.select[sector] = << >>]
                        /\ script' = At("top", 0, {}, script.screen \cup rendered)
                   ELSE /\ session_state' = collected
                        /\ script' = At("exception", script.k, rendered, rendered)
           ELSE /\ session_state' = collected
                /\ script' = IF script.k < Len(sectors)
                             THEN At("loop", script.k + 1, rendered, script.screen)
                             ELSE At("analysis", script.k, rendered, script.screen)
    /\ PageUnchanged

\* What get_stock_data can give for the selected stocks: the sets of symbols
\* for which a history came back that are considered are none, all, and the
\* first selected only.
HistoriesFetched(selected_stocks) ==
    {{}, {selected_stocks[i] : i \in DOMAIN selected_stocks}}
    \cup {{selected_stocks[i]} : i \in DOMAIN selected_stocks \cap {1}}

\* df[symbol] for every selected symbol (line 135): df has a column for the
\* symbols with a history only, and the section is entered when there is one.
RaisesKeyError(selected_stocks, with_history) ==
    /\ with_history # {}
    /\ \E i \in DOMAIN selected_stocks : selected_stocks[i] \notin with_history

\* selected_stocks = st.session_state.selected_stocks and the analysis section
\* (correlation, performance and risk of the selected stocks), which changes
\* nothing in the session state; it ends in a KeyError when some selected
\* stocks have a history and others have none.
ScriptAnalysis ==
    /\ script.pc = "analysis"
    /\ \E with_history \in HistoriesFetched(session_state.selected_stocks) :
          script' = At(IF RaisesKeyError(session_state.selected_stocks, with_history)
                       THEN "key_error" ELSE "done",
                       script.k, script.rendered, script.rendered)
    /\ UNCHANGED session_state
    /\ PageUnchanged

NextPage ==
    \/ UserChangesSelection \/ VisitOtherPage
    \/ ScriptTop \/ ScriptSector \/ ScriptAnalysis

SpecPage == InitPage /\ [][NextPage]_vars

-----------------------------------------------------------------------------
(* utils/mood_indicator.py: calculate_stock_mood *)

MoodWindow == 20               \* tail(20)
TradingDaysPerYear == 252
DefaultPe == 15

\* Series.tail(20)
TailRows(rows) ==
    IF Len(rows) <= MoodWindow THEN rows ELSE SubSeq(rows, Len(rows) - MoodWindow + 1, Len(rows))

\* (last - first) / first * 100 of a column of the recent rows (positive values)
ChangePercent(rows, column) ==
    RMul(RDiv(RSub(rows[Len(rows)][column], rows[1][column]), rows[1][column]), Num(100))

\* recent_prices.pct_change() without its first, undefined, entry
PctChanges(rows) ==
    [i \in 1..(Len(rows) - 1) |->
        RDiv(RSub(rows[i + 1].Close, rows[i].Close), rows[i].Close)]

\* The least common denominator of the first n of the fractions xs.
RECURSIVE CommonDenominator(_, _)
CommonDenominator(xs, n) ==
    IF n = 0 THEN 1
    ELSE LET rest == CommonDenominator(xs, n - 1)
         IN  (rest \div GCD(rest, xs[n].d)) * xs[n].d

\* The square of Series.std() (ddof = 1): NaN entries are skipped, the result
\* is NaN for fewer than two observations and when an observation is infinite.
\* The observations are brought to their common denominator first.
Variance(values) ==
    LET xs == SelectSeq(values, LAMBDA x : ~IsNaN(x))
    IN  IF Len(xs) < 2 \/ \E i \in 1..Len(xs) : ~IsFinite(xs[i]) THEN NaN
        ELSE LET denominator == CommonDenominator(xs, Len(xs))
                 numerators  == [i \in 1..Len(xs) |-> xs[i].n * (denominator \div xs[i].d)]
                 sum         == SumOver(numerators, 1, Len(xs))
                 sumsq       == SumOver([i \in 1..Len(xs) |-> numerators[i] * numerators[i]],
                                        1, Len(xs))
             IN  Frac(Len(xs) * sumsq - sum * sum,
                      Len(xs) * (Len(xs) - 1) * denominator * denominator)

\* volatility = std * np.sqrt(252) * 100 is not negative, so it is below (above)
\* a positive bound exactly when variance * 252 is below (above) the square of
\* bound / 100; both are false for a NaN.
VolatilityBelow(variance, bound) ==
    RLt(RMul(variance, Num(TradingDaysPerYear)), Frac(bound * bound, 10000))
VolatilityAbove(variance, bound) ==
    RGt(RMul(variance, Num(TradingDaysPerYear)), Frac(bound * bound, 10000))

RAbs(x) == IF IsNaN(x) THEN NaN ELSE [x EXCEPT !.n = Abs(x.n)]

\* The table `moods`, in the order of the dictionary: key, description and
\* whether its conditions hold.
MoodTable(price_change, volume_change, variance, pe_ratio) ==
    <<[name |-> "very_bullish", description |-> "Extremely Bullish",
       conditions |-> /\ RGt(price_change, Num(10)) /\ RGt(volume_change, Num(0))
                      /\ VolatilityBelow(variance, 30) /\ RLt(pe_ratio, Num(25))],
      [name |-> "bullish", description |-> "Bullish",
       conditions |-> RGt(price_change, Num(5)) /\ RGt(volume_change, Num(-10))],
      [name |-> "neutral_positive", description |-> "Mildly Positive",
       conditions |-> RGt(price_change, Num(0)) /\ RGt(volume_change, Num(-20))],
      [name |-> "neutral", description |-> "Neutral",
       conditions |-> /\ RLt(RAbs(price_change), Num(3))
                      /\ RLt(RAbs(volume_change), Num(20))],
      [name |-> "neutral_negative", description |-> "Mildly Negative",
       conditions |-> RLt(price_change, Num(0)) /\ RGt(price_change, Num(-5))],
      [name |-> "bearish", description |-> "Bearish",
       conditions |-> RLt(price_change, Num(-5)) \/ RLt(volume_change, Num(-20))],
      [name |-> "very_bearish", description |-> "Extremely Bearish",
       conditions |-> /\ RLt(price_change, Num(-10)) /\ RLt(volume_change, Num(-20))
                      /\ VolatilityAbove(variance, 40)]>>

\* sum(confidence_factors) / len(confidence_factors)
Confidence(price_change, volume_change, variance, pe_ratio) ==
    LET factor(aligned) == IF aligned THEN Num(1) ELSE Frac(1, 2)
    IN  RDiv(RAdd(RAdd(factor(RGt(RAbs(price_change), Num(5))),
                       factor(RGt(RAbs(volume_change), Num(10)))),
                  RAdd(factor(VolatilityBelow(variance, 30)),
                       factor(RLt(Num(10), pe_ratio) /\ RLt(pe_ratio, Num(20))))),
             Num(4))

\* The tuple returned; the emoji is given by the key of its mood.
MoodOf(emoji, description, confidence) ==
    [emoji |-> emoji, description |-> description, confidence |-> confidence]

\* for mood_name, mood_data in moods.items(): the first mood whose conditions
\* hold
FirstMood(table) ==
    CHOOSE i \in 1..Len(table) :
        table[i].conditions /\ \A j \in 1..(i - 1) : ~table[j].conditions

\* calculate_stock_mood(price_data, metrics) for a frame of rows with positive
\* Close and Volume.  No row: iloc[-1] raises IndexError; a P/E ratio of None:
\* the comparison in confidence_factors raises TypeError; both end in 'Unknown'.
calculate_stock_mood(rows, metrics) ==
    LET given == Get(metrics, "P/E Ratio", NotAvailable)
    IN  IF Len(rows) = 0 \/ given = None THEN MoodOf("unknown", "Unknown", Num(0))
        ELSE LET recent        == TailRows(rows)
                 price_change  == ChangePercent(recent, "Close")
                 volume_change == ChangePercent(recent, "Volume")
                 variance      == Variance(PctChanges(recent))
                 pe_ratio      == IF given = NotAvailable THEN Num(DefaultPe) ELSE given
                 table         == MoodTable(price_change, volume_change, variance, pe_ratio)
             IN  IF \E i \in 1..Len(table) : table[i].conditions
                 THEN MoodOf(table[FirstMood(table)].name,
                             table[FirstMood(table)].description,
                             Confidence(price_change, volume_change, variance, pe_ratio))
                 ELSE MoodOf("neutral", "Neutral", Frac(1, 2))

\* Price frames: the closes of up to three days, and of 21 days of which the
\* first 19 are alike; the volume changes on the last day only.
Closes == {80, 100, 102, 120}
LastVolumes == {60, 80, 85, 95, 100, 120}

Day(close, volume) == [Close |-> Num(close), Volume |-> Num(volume)]

PriceFrames ==
    UNION {{[i \in 1..n |-> Day(closes[i], IF i = n THEN volume ELSE 100)] :
               closes \in [1..n -> Closes], volume \in LastVolumes} : n \in 0..3}
    \cup {[i \in 1..(MoodWindow + 1) |->
              Day(IF i = 1 THEN 80 ELSE IF i < MoodWindow THEN 100 ELSE closes[i - MoodWindow + 1],
                  IF i = MoodWindow + 1 THEN volume ELSE 100)] :
             closes \in [1..2 -> {80, 100, 120}], volume \in LastVolumes}

MoodMetrics ==
    {<< >>} \cup {[key \in {"P/E Ratio"} |-> pe] : pe \in {NotAvailable, None, Num(12), Num(30)}}

\* The module is yet to be imported.
InitMood ==
    /\ pc = "import"
    /\ price_data \in PriceFrames
    /\ mood_metrics \in MoodMetrics
    /\ mood = None
    /\ stock_data = None /\ months_ahead = 0 /\ coef = None /\ predictions = None
    /\ unpacked = None /\ forecast_data = None /\ monthly_investment = 0
    /\ portfolio = << >> /\ returns = None
    /\ confidence_level = 0 /\ bands = None
    /\ NoAdvice /\ NoBoundaryCall
    /\ NoMlForecast /\ NoProvider /\ NoMetrics /\ NoPage

\* import of utils.mood_indicator: the `def` statement evaluates its annotation
\* pd.DataFrame, and the module does not import pandas.  An interpreter that
\* evaluates annotations at definition time (Python up to 3.13) raises
\* NameError and the function never exists; one that defers them (3.14)
\* defines the function.
ImportMoodIndicator ==
    /\ pc = "import"
    /\ \E annotations_deferred \in BOOLEAN :
          pc' = IF annotations_deferred THEN "args" ELSE "NameError"
    /\ UNCHANGED <<stock_data, months_ahead, coef, predictions, unpacked, forecast_data,
                   monthly_investment, portfolio, returns, confidence_level, bands,
                   adviceVars, boundaryVars, mlVars, providerVars, metricsVars, pageVars,
                   moodVars>>

\* calculate_stock_mood(price_data, metrics), once the module is imported
CallStockMood ==
    /\ pc = "args"
    /\ pc' = "calculate_stock_mood"
    /\ mood' = calculate_stock_mood(price_data, mood_metrics)
    /\ UNCHANGED <<stock_data, months_ahead, coef, predictions, unpacked, forecast_data,
                   monthly_investment, portfolio, returns, confidence_level, bands,
                   adviceVars, boundaryVars, mlVars, providerVars, metricsVars, pageVars,
                   price_data, mood_metrics>>

NextMood == ImportMoodIndicator \/ CallStockMood

SpecMood == InitMood /\ [][NextMood]_vars

-----------------------------------------------------------------------------
(* Properties of the confidence bands, checked under SpecIntervals *)

IntervalsCalled == pc = "calculate_confidence_intervals"

\* C1: for a non-empty point forecast, at every timestep the lower band, the
\* forecast and the upper band are all defined and lower <= forecast <= upper.
C1_BandsEncloseForecast ==
    (IntervalsCalled /\ Len(forecast_data) >= 1)
        => \A t \in 1..Len(forecast_data) :
              /\ RLe(bands.lower[t].v, forecast_data[t].v)
              /\ RLe(forecast_data[t].v, bands.upper[t].v)

\* C2: for a non-empty point forecast, the lower band is >= 0 at every timestep.
C2_LowerBandNotNegative ==
    (IntervalsCalled /\ Len(forecast_data) >= 1)
        => \A t \in 1..Len(forecast_data) : RGe(bands.lower[t].v, Num(0))

-----------------------------------------------------------------------------
(* Properties of create_forecast and its callers, checked under SpecForecast *)

total_invested == returns[1]
total_profit == returns[2]
return_percentage == returns[3]

\* What the callers' assignment is written for: three Series of one length.
IsSeriesTriple(u) ==
    /\ u.k = "series"
    /\ Len(u.median) = Len(u.lower)
    /\ Len(u.median) = Len(u.upper)

\* C3: called on a non-empty series of positive closes, create_forecast returns
\* three series (median, lower, upper), each non-empty and of the same length,
\* so that `median, lower, upper = create_forecast(...)` succeeds.
C3_ForecastUnpacksIntoThreeSeries ==
    (pc = "unpack" /\ Len(stock_data) >= 1 /\ months_ahead >= 1)
        => /\ IsSeriesTriple(unpacked)
           /\ Len(unpacked.median) > 0

\* C4: for an empty input, create_forecast's result unpacks into three empty
\* series without an exception, and calculate_forecast_returns on the empty
\* forecast gives (0, 0, 0).
C4_EmptyInputGivesThreeEmptySeries ==
    /\ (pc = "unpack" /\ Len(stock_data) = 0)
          => /\ IsSeriesTriple(unpacked)
             /\ Len(unpacked.median) = 0
    /\ (pc = "calculate_forecast_returns" /\ Len(stock_data) = 0)
          => returns = Neutral

\* C5: for a non-empty series and months_ahead = M >= 1, the forecast has M * 30
\* entries, dated on the M * 30 consecutive days after the last historical date.
C5_ForecastCoversThirtyDaysPerMonth ==
    (pc = "create_forecast" /\ Len(stock_data) >= 1 /\ months_ahead >= 1)
        => /\ Len(predictions) = months_ahead * 30
           /\ \A i \in 1..Len(predictions) :
                 predictions[i].date = Last(stock_data).date + i

\* C7: when calculate_forecast_returns is given the M * 30 day forecast that
\* create_forecast produced for a horizon of M months, total_invested is
\* M * monthly_investment.
C7_TotalInvestedIsHorizonTimesMonthly ==
    (pc = "calculate_forecast_returns" /\ months_ahead >= 1
        /\ Len(predictions) = months_ahead * 30)
        => total_invested = Num(months_ahead * monthly_investment)

-----------------------------------------------------------------------------
(* Properties of the return projection, checked under SpecReturns *)

ReturnsCalled == pc = "calculate_forecast_returns"
PortfolioCalled == pc \in {"calculate_portfolio_value", "calculate_forecast_returns"}

Min(S) == CHOOSE x \in S : \A y \in S : x <= y
Max(S) == CHOOSE x \in S : \A y \in S : x >= y

\* The rows of a series that hold a price.
PricedRows(s) == {i \in 1..Len(s) : ~IsNaN(s[i].v)}

\* The calendar months from the first to the last row that holds a price.
PricedMonths(s) ==
    IF PricedRows(s) = {} THEN 0
    ELSE MonthKey(s[Max(PricedRows(s))].date) - MonthKey(s[Min(PricedRows(s))].date) + 1

\* The calendar months from the month of the first date to that of the last date.
IndexMonths(s) == MonthKey(Last(s).date) - MonthKey(s[1].date) + 1

\* C6 as stated: for a non-empty forecast, total_invested is monthly_investment
\* times the number of calendar months from the month of the first date of the
\* index to the month of its last date.
C6_TotalInvestedOverIndexMonths ==
    (ReturnsCalled /\ Len(forecast_data) > 0)
        => total_invested = Num(monthly_investment * IndexMonths(forecast_data))

\* C6 as amended: for a non-empty forecast, total_invested is monthly_investment
\* times the number of calendar months from the month of the first date that
\* holds a price to the month of the last date that holds a price (months in
\* between count whether their price is missing or non-positive), and 0 when no
\* date holds a price.
C6_TotalInvestedOverPricedMonths ==
    (ReturnsCalled /\ Len(forecast_data) > 0)
        => total_invested = Num(monthly_investment * PricedMonths(forecast_data))

\* A forecast of three months whose first row has no price and whose second
\* price is not positive: two periods are invested in.
C6_Witness ==
    /\ ReturnsCalled
    /\ monthly_investment = 1000
    /\ Len(forecast_data) = 3
    /\ IsNaN(forecast_data[1].v)
    /\ RLe(forecast_data[2].v, Num(0))
    /\ total_invested = Num(2000)

\* C8 as stated: the three numbers calculate_forecast_returns gives are finite
\* for every forecast and every monthly_investment >= 0, and return_percentage
\* is 0 when total_invested is 0.
C8_ReturnsAreFinite ==
    ReturnsCalled
        => /\ \A i \in 1..3 : IsFinite(returns[i])
           /\ (total_invested = Num(0) => return_percentage = Num(0))

OnePositivePricePerMonth(s) ==
    /\ Len(s) >= 2
    /\ \A i \in 1..Len(s) : RGt(s[i].v, Num(0))
    /\ \A i \in 1..(Len(s) - 1) : MonthKey(s[i + 1].date) = MonthKey(s[i].date) + 1

StrictlyIncreasing(s) == \A i \in 1..(Len(s) - 1) : RLt(s[i].v, s[i + 1].v)
StrictlyDecreasing(s) == \A i \in 1..(Len(s) - 1) : RGt(s[i].v, s[i + 1].v)

\* C9: with one positive price per month over at least two months and a positive
\* monthly_investment, strictly increasing prices give a positive total_invested,
\* total_profit and return_percentage, and strictly decreasing prices a positive
\* total_invested and a negative total_profit and return_percentage.
C9_SignOfReturnFollowsTrend ==
    (ReturnsCalled /\ OnePositivePricePerMonth(forecast_data) /\ monthly_investment > 0)
        => /\ StrictlyIncreasing(forecast_data)
                => /\ RGt(total_invested, Num(0))
                   /\ RGt(total_profit, Num(0))
                   /\ RGt(return_percentage, Num(0))
           /\ StrictlyDecreasing(forecast_data)
                => /\ RGt(total_invested, Num(0))
                   /\ RLt(total_profit, Num(0))
                   /\ RLt(return_percentage, Num(0))

\* Three months of falling prices, projected at a loss.
C9_Witness ==
    /\ ReturnsCalled
    /\ monthly_investment > 0
    /\ Len(forecast_data) = 3
    /\ OnePositivePricePerMonth(forecast_data)
    /\ StrictlyDecreasing(forecast_data)
    /\ RLt(return_percentage, Num(0))

SharesBefore(i) == IF i = 1 THEN Num(0) ELSE portfolio[i - 1].shares
BadPrice(i) == ~RGt(portfolio[i].price, Num(0))

\* What holds of every period whatever its price: the share count is defined,
\* not negative and not smaller than before, and the recorded value is defined
\* and not negative.
SharesAndValueSound(i) ==
    /\ RGe(portfolio[i].shares, Num(0))
    /\ RGe(portfolio[i].shares, SharesBefore(i))
    /\ RGe(portfolio[i].value, Num(0))

\* C10 as stated: a period whose price is not positive or is missing leaves the
\* share count as it was and records the value of the period before it; the
\* share count never falls and is never negative, and every recorded value is
\* defined and not negative.
C10_BadPeriodRecordsPreviousValue ==
    PortfolioCalled
        => \A i \in 1..Len(portfolio) :
              /\ BadPrice(i)
                    => /\ portfolio[i].shares = SharesBefore(i)
                       /\ i > 1
                       /\ portfolio[i].value = portfolio[i - 1].value
              /\ SharesAndValueSound(i)

\* A value is undefined where the period is priced at +inf while no share is
\* held (0 * inf), and where a period without a positive price repeats such a
\* value.
UndefinedByInfinitePrice(i) ==
    \/ portfolio[i].price = Inf(1) /\ portfolio[i].shares = Num(0)
    \/ BadPrice(i) /\ i > 1 /\ IsNaN(portfolio[i - 1].value)

\* C10 as amended: such a period leaves the share count as it was and records
\* the value of the period before it, or, when it is the first period, the amount
\* invested so far (one monthly_investment); the share count never falls and is
\* never negative; no recorded value is negative, and one is undefined only
\* for an infinite price met with no share held, never while the prices are
\* finite.  For a monthly_investment that is not negative.
C10_BadPeriodRecordsPreviousValueOrInvestment ==
    PortfolioCalled
        => \A i \in 1..Len(portfolio) :
              /\ BadPrice(i)
                    => /\ portfolio[i].shares = SharesBefore(i)
                       /\ portfolio[i].value =
                            IF i = 1 THEN Num(monthly_investment) ELSE portfolio[i - 1].value
              /\ RGe(portfolio[i].shares, Num(0))
              /\ RGe(portfolio[i].shares, SharesBefore(i))
              /\ IF IsNaN(portfolio[i].value) THEN UndefinedByInfinitePrice(i)
                 ELSE RGe(portfolio[i].value, Num(0))
              /\ (\A j \in 1..i : portfolio[j].price \notin {Inf(1), Inf(-1)})
                    => ~IsNaN(portfolio[i].value)

\* A first period at a price that is not positive, a second month without a row,
\* and a purchase in the third.
C10_Witness ==
    /\ pc = "calculate_portfolio_value"
    /\ monthly_investment > 0
    /\ Len(portfolio) = 3
    /\ RLe(portfolio[1].price, Num(0))
    /\ portfolio[1].value = Num(monthly_investment)
    /\ IsNaN(portfolio[2].price)
    /\ portfolio[2].value = portfolio[1].value
    /\ RGt(portfolio[3].price, Num(0))
    /\ RGt(portfolio[3].shares, portfolio[2].shares)

-----------------------------------------------------------------------------
(* Properties of the recommendation, checked under SpecRecommendation *)

RecommendationCalled == pc = "generate_stock_recommendation"

\* The value a metric is read as: 0 when the key is missing.
MetricRead(key) == IF key \in DOMAIN stock_info THEN stock_info[key] ELSE Num(0)

\* The fundamentals are a dictionary whose two metrics are numbers or missing,
\* and the forecast return is a number.
NumericInputs ==
    /\ stock_info # None
    /\ IsNumber(MetricRead("trailingPE"))
    /\ IsNumber(MetricRead("dividendYield"))
    /\ IsNumber(forecast_return_percentage)

\* The points of the three rules as the claims state them.
PePoints ==
    LET pe == MetricRead("trailingPE")
    IN  IF RGt(pe, Num(0)) /\ RLe(pe, Num(15)) THEN 2
        ELSE IF RGt(pe, Num(15)) /\ RLe(pe, Num(25)) THEN 1 ELSE 0
DyPoints ==
    LET dy == MetricRead("dividendYield")
    IN  IF RGt(dy, Frac(1, 20)) THEN 2
        ELSE IF RGe(dy, Frac(1, 50)) /\ RLe(dy, Frac(1, 20)) THEN 1 ELSE 0
RetPoints ==
    LET r == forecast_return_percentage
    IN  IF RGt(r, Num(20)) THEN 2
        ELSE IF RGe(r, Num(10)) /\ RLe(r, Num(20)) THEN 1 ELSE 0

LabelOfPoints(score) ==
    CASE score >= 4 -> "Strong Buy"
      [] score \in {2, 3} -> "Buy"
      [] score = 1 -> "Hold"
      [] OTHER -> "Watch"

\* C11: for numeric inputs (a missing metric reading as 0) the score is the sum
\* of the points of the P/E, dividend-yield and forecast-return rules, with the
\* thresholds 15, 25, 0.02, 0.05, 10 and 20 inclusive as stated, and the label is
\* 'Strong Buy' from 4 points, 'Buy' from 2, 'Hold' for 1 and 'Watch' for 0.
C11_ScoreAndLabelFollowTheRules ==
    (RecommendationCalled /\ NumericInputs)
        => /\ RecommendationBody(stock_info, forecast_return_percentage).score
                = PePoints + DyPoints + RetPoints
           /\ recommendation.k = "returned"
           /\ recommendation.label = LabelOfPoints(PePoints + DyPoints + RetPoints)

\* All three metrics on a threshold: P/E 15 (2 points), yield 0.05 (1 point) and
\* return 20 (1 point) make a 'Strong Buy'.
C11_Witness ==
    /\ RecommendationCalled
    /\ stock_info = [trailingPE |-> Num(15), dividendYield |-> Frac(5, 100)]
    /\ forecast_return_percentage = Num(20)
    /\ recommendation.label = "Strong Buy"

PeReasons == {"Attractive P/E ratio", "Moderate P/E ratio"}
DyReasons == {"High dividend yield", "Moderate dividend yield"}
RetReasons == {"Strong forecasted returns", "Moderate forecasted returns"}

Count(points) == IF points # 0 THEN 1 ELSE 0

\* C12: for numeric inputs the reasons hold one string for each rule that gave
\* points and none for a rule that gave none, in the order P/E, dividend yield,
\* forecast return; so there are at most three, and none exactly when the label
\* is 'Watch'.  {P/E 12, yield 0.06, return 25} gives 'Strong Buy' with three
\* reasons, {P/E 40, yield 0.0, return -5} gives 'Watch' with none.
C12_OneReasonPerScoringRule ==
    (RecommendationCalled /\ NumericInputs)
        => LET reasons == recommendation.reasons
               dyAt    == Count(PePoints) + 1
               retAt   == Count(PePoints) + Count(DyPoints) + 1
           IN  /\ Len(reasons) = Count(PePoints) + Count(DyPoints) + Count(RetPoints)
               /\ Len(reasons) \in 0..3
               /\ PePoints # 0 => reasons[1] \in PeReasons
               /\ DyPoints # 0 => reasons[dyAt] \in DyReasons
               /\ RetPoints # 0 => reasons[retAt] \in RetReasons
               /\ (reasons = << >>) <=> (recommendation.label = "Watch")
               /\ (/\ stock_info = [trailingPE |-> Num(12), dividendYield |-> Frac(6, 100)]
                   /\ forecast_return_percentage = Num(25))
                     => recommendation.label = "Strong Buy" /\ Len(reasons) = 3
               /\ (/\ stock_info = [trailingPE |-> Num(40), dividendYield |-> Num(0)]
                   /\ forecast_return_percentage = Num(-5))
                     => recommendation.label = "Watch" /\ Len(reasons) = 0

\* Only the dividend-yield and the forecast-return rule give points: two
\* reasons, the yield's first.
C12_Witness ==
    /\ RecommendationCalled
    /\ NumericInputs
    /\ PePoints = 0 /\ DyPoints = 1 /\ RetPoints = 2
    /\ recommendation.reasons = <<"Moderate dividend yield", "Strong forecasted returns">>

\* C13: when the evaluation of the rules raises (the fundamentals are None, or a
\* metric or the forecast return is present but not a number), the call returns
\* the label 'Unable to generate recommendation' with an empty list of reasons:
\* no exception reaches the caller and no reason gathered before the failure is
\* returned.
C13_FailureGivesFallbackWithoutReasons ==
    (RecommendationCalled /\ ~NumericInputs)
        => recommendation = Returned("Unable to generate recommendation", << >>)

\* The P/E rule has appended its reason when the dividend yield 'N/A' raises.
C13_Witness ==
    /\ RecommendationCalled
    /\ stock_info = [trailingPE |-> Num(12), dividendYield |-> NotAvailable]
    /\ PeRule(stock_info.trailingPE).reasons = <<"Attractive P/E ratio">>
    /\ recommendation.k = "returned"
    /\ recommendation.label = Fallback
    /\ recommendation.reasons = << >>

FourLabels == {"Strong Buy", "Buy", "Hold", "Watch"}

\* C14 as stated: for every fundamentals and every forecast return the label
\* returned is one of 'Strong Buy', 'Buy', 'Hold' and 'Watch'.
C14_LabelIsOneOfFour ==
    RecommendationCalled => recommendation.label \in FourLabels

\* C14 as amended: the label is one of the four when the evaluation of the rules
\* raises nothing (numeric or missing metrics, a numeric forecast return), and
\* the fallback label 'Unable to generate recommendation' otherwise.
C14_LabelIsOneOfFourOrFallback ==
    RecommendationCalled
        => /\ recommendation.k = "returned"
           /\ IF NumericInputs THEN recommendation.label \in FourLabels
              ELSE recommendation.label = "Unable to generate recommendation"

\* A P/E that is not a number scores nothing and raises nothing.
C14_Witness ==
    /\ RecommendationCalled
    /\ "trailingPE" \in DOMAIN stock_info
    /\ IsNaN(stock_info.trailingPE)
    /\ "dividendYield" \notin DOMAIN stock_info
    /\ forecast_return_percentage = Num(9)
    /\ recommendation.label = "Watch"

-----------------------------------------------------------------------------
(* Properties of the recommendation for a projected return, checked under SpecAdvice *)

\* The rows of the forecast fall in at least two calendar months.
SpansTwoMonths(s) == Len(s) >= 2 /\ MonthKey(Last(s).date) > MonthKey(s[1].date)

UndefinedReturnByInfiniteStart ==
    /\ forecast_data[1].v = Inf(1)
    /\ portfolio[1].price = Inf(1)
    /\ \A i \in 2..Len(portfolio) : BadPrice(i)

-----------------------------------------------------------------------------
(* Properties of the features and of short histories, checked under SpecForecast *)

ForecastCalled == pc = "create_forecast"

\* C16: for every history of one record or more, after the backfill each of
\* Days, Month, DayOfWeek, MA50, MA200 and Volatility is defined at every record,
\* so that no undefined value enters the fit.
C16_FeaturesDefinedAfterBackfill ==
    (ForecastCalled /\ Len(stock_data) >= 1)
        => LET X == Features(stock_data)
           IN  /\ Len(X) = Len(stock_data)
               /\ \A i \in 1..Len(X) :
                     /\ X[i].Days \in Nat /\ X[i].Month \in 1..12 /\ X[i].DayOfWeek \in 0..6
                     /\ ~IsNaN(X[i].MA50) /\ ~IsNaN(X[i].MA200) /\ ~IsNaN(X[i].Volatility)

\* C17: create_forecast on a history of no record, or of fewer than 30, returns
\* the empty Series.
C17_ShortHistoryGivesEmptyResult ==
    (ForecastCalled /\ Len(stock_data) < VolatilityWindow) => predictions = EmptySeries

\* A horizon of three months asked for on 29 records: the volatility has no
\* value to backfill from, the fit fails and the result is empty.
C17_Witness ==
    /\ ForecastCalled
    /\ Len(stock_data) = 29
    /\ months_ahead = 3
    /\ HasNaN(Features(stock_data))
    /\ predictions = EmptySeries

-----------------------------------------------------------------------------
(* Properties of the calls with arbitrary arguments, checked under SpecBoundary *)

CoreFunctions ==
    {"create_forecast", "calculate_confidence_intervals", "calculate_forecast_returns",
     "generate_stock_recommendation", "generate_ml_forecast"}

\* C18: whatever the arguments, a call of create_forecast,
\* calculate_confidence_intervals, calculate_forecast_returns,
\* generate_stock_recommendation or generate_ml_forecast ends in a return, never
\* in an exception that reaches the caller.
C18_NoExceptionLeavesTheCore ==
    pc \in CoreFunctions => outcome.k = "returned"

CopyingFunctions == {"create_forecast", "calculate_portfolio_value", "prepare_features"}

\* C19: a call of create_forecast, calculate_portfolio_value or prepare_features,
\* whether it returns or fails, leaves the caller's object with the columns,
\* index and rows it had.
C19_CallerObjectUnchanged ==
    [][pc' \in CopyingFunctions => argument' = argument]_vars

\* prepare_features failed on a frame without 'Volume' after its working copy
\* got the column 'Returns'; the caller's frame still has 'Close' alone.
C19_Witness ==
    /\ pc = "prepare_features"
    /\ outcome = Raised(KeyError)
    /\ argument = Frame({"Close"}, "dates", 100)
    /\ PrepareFeaturesOn(HeapOf(argument)).heap["df"].columns = {"Close", "Returns"}

-----------------------------------------------------------------------------
(* Properties of the tree ensemble, checked under SpecTrees *)

\* C21: in every forecast generate_ml_forecast computes, at every step the lower
\* bound (the 5th percentile of the trees' predictions) is at most the point
\* forecast (their mean), which is at most the upper bound (the 95th percentile).
C21_MlBoundsEncloseForecast ==
    (pc = "generate_ml_forecast" /\ Len(ml_forecast.forecast) > 0)
        => \A t \in 1..Len(ml_forecast.forecast) :
              /\ RLe(ml_forecast.lower_bound[t], ml_forecast.forecast[t])
              /\ RLe(ml_forecast.forecast[t], ml_forecast.upper_bound[t])

\* C24: every pass of the loop leaves for the next pass the window advanced by
\* one row, which is another window than the one just predicted from.
C24_WindowAdvancesEveryStep ==
    [][Len(ml_predictions') > Len(ml_predictions)
          => /\ \A i \in 1..(SeqLength - 1) : current_sequence'[i] = current_sequence[i + 1]
             /\ current_sequence' # current_sequence]_vars

-----------------------------------------------------------------------------
(* Properties of the data functions, checked under SpecProvider *)

\* C22: what get_stock_data returns for a non-empty history is, for a '.JO'
\* symbol, the exchange's Open, High, Low and Close divided by 100 once, its
\* Volume as it is, and its fiftyTwoWeekHigh and fiftyTwoWeekLow divided by 100
\* once, whatever calls went before and whether or not the provider hands out
\* the same objects again; for another symbol it is the exchange's values.
C22_CentsConvertedExactlyOnce ==
    (pc = "get_stock_data" /\ fetched.hist # None /\ fetched.info # None)
        => /\ DOMAIN fetched.hist.bars = DOMAIN quote.hist
           /\ \A i \in DOMAIN quote.hist :
                 /\ \A col \in PriceColumns :
                       fetched.hist.bars[i][col] =
                           IF EndsWithJO(symbol)
                           THEN RDiv(quote.hist[i][col], Num(100)) ELSE quote.hist[i][col]
                 /\ fetched.hist.bars[i]["Volume"] = quote.hist[i]["Volume"]
           /\ DOMAIN fetched.info = DOMAIN quote.info
           /\ \A key \in DOMAIN quote.info :
                 fetched.info[key] =
                     IF EndsWithJO(symbol) /\ key \in InfoPriceKeys
                     THEN RDiv(quote.info[key], Num(100)) ELSE quote.info[key]

-----------------------------------------------------------------------------
(* Properties of the portfolio aggregates, checked under SpecMetrics *)

\* The stocks that report a positive market cap, and those among them that
\* report a number for the given key of the info dictionary.
WithCap == {i \in DOMAIN holdings :
               /\ "marketCap" \in DOMAIN holdings[i].info
               /\ RGt(holdings[i].info["marketCap"], Num(0))}
WithCapAnd(key) == {i \in WithCap : key \in DOMAIN holdings[i].info}

\* The sum over the stocks in `stocks` of market cap times the value under key
\* (times 1 for the key "").
RECURSIVE WeightedSum(_, _)
WeightedSum(stocks, key) ==
    IF stocks = {} THEN Num(0)
    ELSE LET i == CHOOSE j \in stocks : TRUE
         IN  RAdd(RMul(holdings[i].info["marketCap"],
                       IF key = "" THEN Num(1) ELSE holdings[i].info[key]),
                  WeightedSum(stocks \ {i}, key))

\* The market-cap-weighted average of the value under key over the stocks that
\* report both, 0 when there is none.
WeightedAverage(key) ==
    IF WithCapAnd(key) = {} THEN Num(0)
    ELSE RDiv(WeightedSum(WithCapAnd(key), key), WeightedSum(WithCapAnd(key), ""))

\* C23: calculate_portfolio_metrics returns a dictionary whose total is the sum
\* of the positive market caps and whose weighted P/E and weighted dividend
\* yield are the market-cap-weighted averages over the stocks that report a
\* positive market cap and that metric; all are 0 when no stock qualifies.
C23_WeightedAveragesOverReportingStocks ==
    pc = "calculate_portfolio_metrics"
        => /\ portfolio_metrics # None
           /\ portfolio_metrics["Total Market Cap"] = WeightedSum(WithCap, "")
           /\ portfolio_metrics["Weighted P/E"] = WeightedAverage("trailingPE")
           /\ portfolio_metrics["Weighted Dividend Yield"] = WeightedAverage("dividendYield")

-----------------------------------------------------------------------------
(* Properties of the future feature rows, checked under SpecForecast *)

\* The future feature rows of the call made, as create_forecast builds them.
FutureRowsBuilt ==
    FutureFeatures(Features(stock_data), FutureDates(Last(stock_data).date, months_ahead))

\* Two records of the history lie more than a day apart.
HasCalendarGap(df) == \E i \in 1..(Len(df) - 1) : df[i + 1].date - df[i].date > 1

\* C25: the day index of the history counts the records from 0, whatever their
\* dates, and the future rows of a forecast continue the count: n, n + 1, ...,
\* n + H - 1 for a history of n records and H future dates.
C25_DayIndexContinuesIntoFuture ==
    (ForecastCalled /\ Len(stock_data) > 0)
        => /\ \A X \in {Features(stock_data)} :
                 \A i \in 1..Len(stock_data) : X[i].Days = i - 1
           /\ Len(predictions) > 0
                 => \A future \in {FutureRowsBuilt} :
                       /\ Len(future) = Len(predictions)
                       /\ \A j \in 1..Len(predictions) :
                             future[j].Days = Len(stock_data) + j - 1

\* A forecast over several months was made from a history with weekends left
\* out.
C25_Witness ==
    /\ ForecastCalled
    /\ HasCalendarGap(stock_data)
    /\ Len(predictions) > DaysPerMonth

\* C26: every future feature row of a forecast carries the MA50, MA200 and
\* Volatility of the last record of the history, that is the rolling mean of
\* its last 50 and 200 closes and the rolling deviation of its last 30.
C26_FutureAveragesHeldAtLastValue ==
    (ForecastCalled /\ Len(predictions) > 0)
        => \A future \in {FutureRowsBuilt} :
           \A last \in {[MA50  |-> RollingMean(Values(stock_data), MA50Window,
                                               Len(stock_data)),
                         MA200 |-> RollingMean(Values(stock_data), MA200Window,
                                               Len(stock_data)),
                         Volatility |-> RollingStd(Values(stock_data), VolatilityWindow,
                                                   VolatilityWindow, Len(stock_data))]} :
              \A j \in 1..Len(predictions) :
                 /\ future[j].MA50 = last.MA50
                 /\ future[j].MA200 = last.MA200
                 /\ future[j].Volatility = last.Volatility

\* A forecast was made whose future rows differ in month and day of week, from
\* a history whose two moving averages differ.
C26_Witness ==
    /\ ForecastCalled
    /\ Len(predictions) > DaysPerMonth
    /\ \E future \in {FutureRowsBuilt} :
          /\ future[1].Month # future[Len(predictions)].Month
          /\ future[1].DayOfWeek # future[2].DayOfWeek
          /\ future[1].MA50 # future[1].MA200

-----------------------------------------------------------------------------
(* Properties of the width of the bands, checked under SpecIntervals *)

\* upper[t] - P[t]
MarginAt(t) == RSub(bands.upper[t].v, forecast_data[t].v)

\* C27: the margin upper[t] - P[t] does not shrink from one step of the
\* forecast to the next, wherever it is defined at both.
C27_MarginWidensWithHorizon ==
    IntervalsCalled
        => \A t \in 1..(Len(forecast_data) - 1) :
              (~IsNaN(MarginAt(t)) /\ ~IsNaN(MarginAt(t + 1)))
                  => RLe(MarginAt(t), MarginAt(t + 1))

-----------------------------------------------------------------------------
(* Properties of the stock selection, checked under SpecPage *)

\* The current selections of the sectors order[1..n], one after the other.
RECURSIVE CurrentSelections(_, _)
CurrentSelections(order, n) ==
    IF n = 0 THEN << >>
    ELSE CurrentSelections(order, n - 1) \o session_state.select[order[n]]

\* C28: whenever the script is at the analysis section, selected_stocks holds at
\* most 15 symbols and is the concatenation of the sectors' current selections.
C28_AnalysisSeesAtMostFifteen ==
    script.pc = "analysis"
        => /\ Len(session_state.selected_stocks) <= 15
           /\ session_state.selected_stocks = CurrentSelections(sectors, Len(sectors))

\* The analysis is reached with exactly 15 stocks selected, from four sectors,
\* four of them of Mining in an order that is not the listing order.
C28_Witness ==
    /\ script.pc = "analysis"
    /\ Len(session_state.selected_stocks) = 15
    /\ Cardinality({s \in Sectors : session_state.select[s] # << >>}) = 4
    /\ session_state.select["Mining"] = Reversed(Tail(SectorStocks("Mining")))

\* C29: the runs of the script come to an end by themselves with at most 15
\* stocks selected: a run that has stopped, with nothing more to happen until
\* the user acts, has completed the script and left at most 15 selected.
C29_RunsEndCompletedWithinLimit ==
    script.pc \in {"done", "exception"}
        => /\ script.pc = "done"
           /\ Len(CurrentSelections(sectors, Len(sectors))) <= 15

-----------------------------------------------------------------------------
(* Properties of the mood indicator, checked under SpecMood *)

\* The indicators of the call made, over the last 20 rows.
RecentRows == TailRows(price_data)

\* C30: when the price change over the recent rows is below -10%, the volume
\* change below -20% and the annualised volatility above 40, the mood returned
\* is 'Extremely Bearish'.
C30_ExtremelyBearishIsReturned ==
    (/\ pc = "calculate_stock_mood"
     /\ mood.description # "Unknown"
     /\ RLt(ChangePercent(RecentRows, "Close"), Num(-10))
     /\ RLt(ChangePercent(RecentRows, "Volume"), Num(-20))
     /\ VolatilityAbove(Variance(PctChanges(RecentRows)), 40))
        => mood.description = "Extremely Bearish"

=============================================================================
